---- MODULE Spec2Model ----
(***************************************************************************)
(* nvprime daemon: DaemonState behind one Mutex, the D-Bus service         *)
(* (apply_tuning / reset_tuning), the per-pid watchdog tasks and the       *)
(* hardware adapters (NVML power limit, per-core EPP, setpriority).        *)
(***************************************************************************)
EXTENDS Integers, Sequences, FiniteSets, TLC

\* ------------------------------------------------------------------ bounds
NumPids == 2
NumCalls == 2
MaxRpc == 3
MaxRespawn == 1
NumCores == 2

Pids == 1..NumPids
\* every accepted call spawns at most one watchdog task
Mons == 1..MaxRpc
Calls == 1..NumCalls
Cores == 1..NumCores

\* NVML power-limit constraints of the modelled device (milliwatt units abstracted)
MinLimit == 1
DefaultLimit == 2
MaxLimit == 3

\* ------------------------------------------------------------------ Option<T>
None == <<>>
Some(x) == <<x>>
IsSome(o) == o # <<>>
Unwrap(o) == o[1]

\* ------------------------------------------------------------------ EPP profiles
EppProfiles == {"Performance", "BalancePerformance", "Default", "BalancePower", "Power"}

\* str::to_lowercase over the strings the model feeds to set_epp
to_lowercase(s) ==
    CASE s = "PERFORMANCE" -> "performance"
      [] s = "Balance_Power" -> "balance_power"
      [] s = "Balance_Performance" -> "balance_performance"
      [] s = "DEFAULT" -> "default"
      [] s = "Power" -> "power"
      [] s = "INVALID_MODE" -> "invalid_mode"
      [] OTHER -> s

\* from_str that matches the string as given
from_str_CaseSensitive(s) ==
    LET l == s IN
    CASE l = "performance" -> Some("Performance")
      [] l = "balance_performance" -> Some("BalancePerformance")
      [] l = "default" -> Some("Default")
      [] l = "balance_power" -> Some("BalancePower")
      [] l = "power" -> Some("Power")
      [] OTHER -> None

\* EppProfile::from_str: Some(profile) for Ok, None for Err(())
from_str(s) ==
    LET l == to_lowercase(s) IN
    CASE l = "performance" -> Some("Performance")
      [] l = "balance_performance" -> Some("BalancePerformance")
      [] l = "default" -> Some("Default")
      [] l = "balance_power" -> Some("BalancePower")
      [] l = "power" -> Some("Power")
      [] OTHER -> None

as_str(p) ==
    CASE p = "Performance" -> "performance"
      [] p = "BalancePerformance" -> "balance_performance"
      [] p = "Default" -> "default"
      [] p = "BalancePower" -> "balance_power"
      [] p = "Power" -> "power"

\* ------------------------------------------------------------------ request payloads
\* CpuTune / GpuTune / SysTune as carried by TuningConfig. The three sections are
\* independent inputs, each read once by the step that consumes it, so each is
\* drawn there; only what a later step still reads is kept in the call's locals.
CpuConfigs ==
    [enabled : BOOLEAN, amd_epp_tune : {"performance"},
     amd_epp_base : {"balance_performance", "balance"}]

GpuConfigs ==
    [enabled : BOOLEAN, set_max_pwr : BOOLEAN,
     pwr_limit_tune : {None, Some(MinLimit), Some(MaxLimit + 1)}]

SysConfigs ==
    [enabled : BOOLEAN, proc_renice : {0, -5}, watchdog_interval_sec : {10}]

\* ------------------------------------------------------------------ state
VARIABLES
    daemon_pc,              \* "boot" before init_gpu ran, then "serving"
    gpu,                    \* DaemonState.gpu: TRUE iff Some(NvGpu)
    active_pids,            \* DaemonState.active_pids
    baseline_power_limit,   \* DaemonState.baseline_power_limit : Option<u32>
    baseline_epp,           \* DaemonState.baseline_epp : Option<String>
    lock,                   \* owner of the Mutex<DaemonState>
    call,                   \* in-flight D-Bus method calls
    mon,                    \* spawned watchdog tasks
    alive,                  \* pids with a /proc/<pid> entry
    respawns,               \* how many times a dead pid number was reused
    nrpc,                   \* D-Bus calls accepted so far
    gpu_limit,              \* hardware: enforced power limit of the device
    core_epp,               \* hardware: energy_performance_preference of each core
    cs,                     \* history: the latest critical section
    audit,                  \* the fields of hist that are kept (fixed along a behaviour)
    hist,                   \* history: totals over the run
    proc,                   \* the process image of the daemon binary and its environment
    epp_call,               \* the latest direct call of an EPP function and its result
    client                  \* the launcher client process

vars == <<daemon_pc, gpu, active_pids, baseline_power_limit, baseline_epp, lock,
          call, mon, alive, respawns, nrpc, gpu_limit, core_epp, cs, audit, hist,
          proc, epp_call, client>>

daemon_vars == <<gpu, active_pids, baseline_power_limit, baseline_epp>>
hw_vars == <<gpu_limit, core_epp>>
env_vars == <<alive, respawns, audit, proc, epp_call, client>>

Free == <<"free", 0>>
ByCall(c) == <<"call", c>>
ByMon(m) == <<"mon", m>>

IdleCall == [pc |-> "idle", pid |-> 0, success |-> TRUE, interval |-> 0]

FreeMon == [pc |-> "free", pid |-> 0, interval |-> 0]

\* history of one critical section; reset each time the mutex is taken:
\*   before: active_pids when the mutex was taken     emptied: active_pids went non-empty -> empty
\*   rgpu/rcpu: calls of restore_gpu_defaults / restore_cpu_defaults
\*   agpu/acpu: calls that reached the NvGpu / RyzenEPPManager adapter
\*   cpu_req/gpu_req: "on"/"off" once apply_tuning's CPU/GPU step read its enabled flag
\*   set_err: NvGpu::set_power_limit returned Err
\*   failed_step: the step of apply_tuning whose Err ended the call
NewCs(kind, pid) ==
    [kind |-> kind, pid |-> pid, before |-> active_pids, emptied |-> FALSE,
     rgpu |-> 0, rcpu |-> 0, agpu |-> 0, acpu |-> 0,
     cpu_req |-> "none", gpu_req |-> "none", set_err |-> FALSE, failed_step |-> "none",
     gpu_err |-> FALSE, done |-> FALSE, result |-> "none"]

SystemEpp == "balance_performance"

\*   cpu_reqs: <<enabled, amd_epp_base>> of every request whose CPU step ran, in order
\*   gpu_cfg: the GpuTune the latest GPU step read
\*   entry_epp/entry_limit: baseline_epp and the enforced limit when the latest
\*   apply_tuning took the mutex
\*   prio: the latest apply_process_priority: its pid, the sys_tuning flag and
\*   proc_renice it was given, whether it called libc::setpriority and whether that
\*   returned 0
\*   fresh: the pids that apply_tuning recorded while their process ran, and whose
\*   process has not exited and whose tracking no reset_tuning has cleared since
\*   cpu_applied: some apply_tuning whose CPU section was enabled returned Ok
NoHist ==
    [passes |-> 0, last_restorer |-> <<"none", 0>>, restore_failed |-> FALSE,
     gpu_set_pending |-> FALSE, applied |-> {}, ok_pids |-> {},
     cpu_reqs |-> <<>>, entry_epp |-> None,
     gpu_cfg |-> [enabled |-> FALSE, set_max_pwr |-> FALSE, pwr_limit_tune |-> None],
     entry_limit |-> DefaultLimit, fresh |-> {}, cpu_applied |-> FALSE,
     prio |-> [seen |-> FALSE, pid |-> 0, enabled |-> FALSE, renice |-> 0,
               called |-> FALSE, ok |-> TRUE]]

\* ------------------------------------------------------------------ process image
\* bounds: try_elevate calls in one image, run_pkexec calls in one chain of images
MaxTry == 2
MaxExec == 2

UserHome == "/home/user"
RootHome == "/root"
Exe == "/usr/bin/nvprime-sys"

\* std::env::args() of the first image
Argvs == {<<"nvprime-sys">>, <<"nvprime-sys", "--config", "nvprime.conf">>}

\* what becomes of Command::new("pkexec").arg(&exe).args(&args).exec():
\*   "exec_failed": exec returns Err, the image goes on
\*   "root" / "user": the helper starts the binary with euid 0 / with the caller's euid
\*   "denied": the helper replaced the image and ends without starting the binary
ExecOutcomes == {"exec_failed", "root", "user", "denied"}

\* an image: the binary (bin/nvprime_sys.rs or bin/daemon.rs), its argv and euid, the
\* environment variables the code reads, where main stands and what the latest
\* try_elevate returned. History: calls = try_elevate calls returned in this image,
\* helper_calls = run_pkexec calls of the chain, images = images started by the
\* helper, home0 = HOME of the first image.
Image(bin, argv, euid, marker, home) ==
    [bin |-> bin, argv |-> argv, euid |-> euid,
     env |-> [PRIME_RS_ELEVATED |-> marker, HOME |-> home, ORIGINAL_HOME |-> None],
     pc |-> "main", ret |-> "none", calls |-> 0, helper_calls |-> 0, images |-> 0,
     home0 |-> home]

\* the image of a daemon that was started as root and reached daemon.run()
DaemonImage ==
    [Image("nvprime_sys", <<"nvprime-sys">>, "root", FALSE, Some(RootHome))
        EXCEPT !.pc = "run", !.ret = "true", !.calls = 1]

\* is_root: geteuid() == 0
is_root(p) == p.euid = "root"

\* try_elevate returns b to its caller
Returned(p, b) == [p EXCEPT !.ret = b, !.calls = @ + 1, !.pc = "after"]

\* run_pkexec: exe is current_exe(), args are env::args().skip(1); exec hands the
\* environment on; a helper that grants root sets HOME to root's
run_pkexec(p, outcome) ==
    LET q == [p EXCEPT !.helper_calls = @ + 1] IN
    CASE outcome = "exec_failed" -> Returned(q, "false")
      [] outcome = "denied" -> [q EXCEPT !.pc = "denied"]
      [] OTHER ->
            [q EXCEPT !.argv = <<Exe>> \o Tail(p.argv), !.euid = outcome,
                      !.env.HOME = IF outcome = "root" THEN Some(RootHome) ELSE @,
                      !.pc = "main", !.ret = "none", !.calls = 0, !.images = @ + 1]


\* process_try_elevate that does not look for the marker
process_try_elevate_NoMarkerCheck(p, outcome) ==
    IF is_root(p) THEN Returned(p, "true")
    ELSE run_pkexec([p EXCEPT !.env.PRIME_RS_ELEVATED = TRUE], outcome)

\* service::process::try_elevate
process_try_elevate(p, outcome) ==
    IF is_root(p) THEN Returned(p, "true")
    ELSE IF p.env.PRIME_RS_ELEVATED THEN Returned(p, "false")
    ELSE run_pkexec([p EXCEPT !.env.PRIME_RS_ELEVATED = TRUE], outcome)

\* service::privilege::Privilege::try_elevate: HOME, when set, is saved first
Privilege_try_elevate(p, outcome) ==
    IF is_root(p) THEN Returned(p, "true")
    ELSE IF p.env.PRIME_RS_ELEVATED THEN Returned(p, "false")
    ELSE LET saved == IF IsSome(p.env.HOME)
                      THEN [p EXCEPT !.env.ORIGINAL_HOME = p.env.HOME] ELSE p
         IN run_pkexec([saved EXCEPT !.env.PRIME_RS_ELEVATED = TRUE], outcome)

\* if is_root: HOME is restored from ORIGINAL_HOME when that is set
RestoreHome(p) ==
    IF is_root(p) /\ IsSome(p.env.ORIGINAL_HOME)
    THEN [p EXCEPT !.env.HOME = p.env.ORIGINAL_HOME] ELSE p

\* no EPP function was called directly; no client runs
NoEppCall == [kind |-> "none"]
NoClient == [pc |-> "none"]

\* DaemonState::new(), an untuned machine, every pid of the model running
Boot(a) ==
    /\ daemon_pc = "boot"
    /\ gpu = FALSE
    /\ active_pids = {}
    /\ baseline_power_limit = None
    /\ baseline_epp = None
    /\ lock = Free
    /\ call = [c \in Calls |-> IdleCall]
    /\ mon = [m \in Mons |-> FreeMon]
    /\ alive = Pids
    /\ respawns = 0
    /\ nrpc = 0
    /\ gpu_limit = DefaultLimit
    /\ core_epp = [k \in Cores |-> [epp |-> SystemEpp, tuned |-> FALSE]]
    /\ cs = [kind |-> "none", pid |-> 0, before |-> {}, emptied |-> FALSE,
             rgpu |-> 0, rcpu |-> 0, agpu |-> 0, acpu |-> 0,
             cpu_req |-> "none", gpu_req |-> "none", set_err |-> FALSE,
             failed_step |-> "none",
             gpu_err |-> FALSE, done |-> FALSE, result |-> "none"]
    /\ audit = a
    /\ hist = NoHist
    /\ epp_call = NoEppCall
    /\ client = NoClient

\* the same, in a daemon that reached daemon.run() as root
Start(a) == Boot(a) /\ proc = DaemonImage

Init == Start({})

\* the same start, recording what was left tuned and which pids were tracked
InitAudit == Start({"restore_failed", "gpu_set_pending", "ok_pids"})

\* the same start, recording every total
InitAll == Start(DOMAIN NoHist)

\* the same start, recording the CPU sections of the requests
InitCpu == Start({"cpu_reqs", "entry_epp"})

\* the same start, recording the GPU section of the latest request
InitGpuReq == Start({"gpu_cfg", "entry_limit"})

\* ------------------------------------------------------------------ adapters
\* u32::clamp(min_limit, max_limit)
clamp(v, lo, hi) == IF v < lo THEN lo ELSE IF v > hi THEN hi ELSE v

GpuOutcomes == {"ok", "err_before", "err_after"}
RestoreOutcomes == {"ok", "err"}

\* NvGpu::set_power_limit: the enforced limit it leaves behind. "err_before" is an
\* NVML error up to and including set_power_management_limit, "err_after" one of
\* the verification queries that follow the write.
set_power_limit(limit, power_limit, set_max_pwr, outcome) ==
    IF outcome = "err_before" THEN limit
    ELSE IF set_max_pwr THEN MaxLimit
    ELSE IF IsSome(power_limit) THEN clamp(Unwrap(power_limit), MinLimit, MaxLimit)
    ELSE limit

\* NvGpu::restore_defaults: the enforced limit it leaves behind
restore_defaults(limit, outcome) == IF outcome = "ok" THEN DefaultLimit ELSE limit

\* RyzenEPPManager::set_epp: the per-core values it leaves behind; W is the set of
\* cores whose control file exists and accepts the write. It returns Ok(()) always.
set_epp(cores, mode, W, tuned) ==
    LET p == from_str(mode) IN
    IF ~IsSome(p) THEN cores
    ELSE [k \in Cores |->
            IF k \in W THEN [epp |-> as_str(Unwrap(p)), tuned |-> tuned] ELSE cores[k]]

\* ------------------------------------------------------------------ daemon start
InitGpuOutcomes ==
    {"nvml_init_failed", "gpu_info_failed", "get_device_failed", "default_limit_failed", "ok"}


\* InitGpu that stores the handle before it asks for the default limit
InitGpu_HandleFirst(outcome) ==
    /\ daemon_pc = "boot"
    /\ daemon_pc' = "serving"
    /\ gpu' = (outcome \in {"default_limit_failed", "ok"})
    /\ baseline_power_limit' = IF outcome = "ok" THEN Some(DefaultLimit) ELSE None
    /\ UNCHANGED <<active_pids, baseline_epp, lock, call, mon, env_vars, nrpc,
                   gpu_limit, core_epp, cs, hist>>

\* InitGpu that stores the handle as soon as NvGpu::init returned it
InitGpu_StoreOnInit(outcome) ==
    /\ daemon_pc = "boot"
    /\ daemon_pc' = "serving"
    /\ gpu' = (outcome # "nvml_init_failed")
    /\ baseline_power_limit' = IF outcome = "ok" THEN Some(DefaultLimit) ELSE None
    /\ UNCHANGED <<active_pids, baseline_epp, lock, call, mon, env_vars, nrpc,
                   gpu_limit, core_epp, cs, hist>>

\* DaemonState::init_gpu, each `?` an early return; the daemon serves either way
InitGpu(outcome) ==
    /\ daemon_pc = "boot"
    /\ daemon_pc' = "serving"
    /\ IF outcome = "ok"
       THEN baseline_power_limit' = Some(DefaultLimit) /\ gpu' = TRUE
       ELSE UNCHANGED <<baseline_power_limit, gpu>>
    /\ UNCHANGED <<active_pids, baseline_epp, lock, call, mon, env_vars, nrpc,
                   gpu_limit, core_epp, cs, hist>>

\* ------------------------------------------------------------------ helpers
Audit(h) == [f \in DOMAIN hist |-> IF f \in audit THEN h[f] ELSE hist[f]]
FreeMons == {m \in Mons : mon[m].pc = "free"}
LowestFreeMon == CHOOSE m \in FreeMons : \A n \in FreeMons : m <= n
IdleCalls == {c \in Calls : call[c].pc = "idle"}

\* a D-Bus call is dispatched to the service
Accept(c) ==
    /\ daemon_pc = "serving"
    /\ nrpc < MaxRpc
    /\ c \in IdleCalls
    /\ \A d \in IdleCalls : c <= d
    /\ nrpc' = nrpc + 1

\* ------------------------------------------------------------------ apply_tuning
\* config_json as the service sees it: whether the text is complete JSON, and for
\* each of the keys "cpu", "gpu", "sys" whether the section is missing, carries only
\* its *_tuning flag, or carries every field
SectionShapes == {"missing", "flag_only", "full"}
AllFull == [wellformed |-> TRUE, cpu |-> "full", gpu |-> "full", sys |-> "full"]
\* the blob of test_tuning_config_deserialization_minimal
FlagsOnly == [wellformed |-> TRUE, cpu |-> "flag_only", gpu |-> "flag_only", sys |-> "flag_only"]
\* the complete blob, the same text truncated, the blob of flags, and every blob with
\* one section reduced
Blobs ==
    {AllFull, [AllFull EXCEPT !.wellformed = FALSE], FlagsOnly}
        \cup {[AllFull EXCEPT !.cpu = x] : x \in SectionShapes}
        \cup {[AllFull EXCEPT !.gpu = x] : x \in SectionShapes}
        \cup {[AllFull EXCEPT !.sys = x] : x \in SectionShapes}

\* serde_json::from_str::<TuningConfig>: TRUE for Ok. TuningConfig has no default for
\* a missing section; GpuTune and SysTune are #[serde(default)], CpuTune is not, so
\* its amd_epp_tune and amd_epp_base are required fields.
TuningConfig_from_str(blob) ==
    /\ blob.wellformed
    /\ blob.cpu = "full"
    /\ blob.gpu # "missing"
    /\ blob.sys # "missing"


\* ApplyTuningBadJson that records the pid before it looks at the blob
ApplyTuningBadJson_AddFirst(c, pid, blob) ==
    /\ Accept(c)
    /\ ~TuningConfig_from_str(blob)
    /\ active_pids' = active_pids \cup {pid}
    /\ UNCHANGED <<daemon_pc, gpu, baseline_power_limit, baseline_epp, lock, call, mon,
                   env_vars, hw_vars, cs, hist>>

\* serde_json::from_str fails: the call returns Err before the mutex is touched
ApplyTuningBadJson(c, pid, blob) ==
    /\ Accept(c)
    /\ ~TuningConfig_from_str(blob)
    /\ UNCHANGED <<daemon_pc, daemon_vars, lock, call, mon, env_vars, hw_vars, cs, hist>>

\* the config deserialized; the call takes the mutex (it blocks while another holds it)
ApplyTuningEnter(c, pid) ==
    /\ Accept(c)
    /\ lock = Free
    /\ lock' = ByCall(c)
    /\ call' = [call EXCEPT ![c] = [IdleCall EXCEPT !.pc = "cpu", !.pid = pid]]
    /\ cs' = NewCs("apply", pid)
    /\ hist' = Audit([hist EXCEPT !.applied = @ \cup {pid}, !.entry_epp = baseline_epp,
                                  !.entry_limit = gpu_limit])
    /\ UNCHANGED <<daemon_pc, daemon_vars, mon, env_vars, hw_vars>>


\* ApplyCpu that treats a core it could not write like a failed GPU step
ApplyCpu_FailFast(c, cfg, W) ==
    /\ call[c].pc = "cpu"
    /\ IF cfg.enabled
       THEN /\ baseline_epp' = IF baseline_epp = None THEN Some(cfg.amd_epp_base)
                                                      ELSE baseline_epp
            /\ core_epp' = set_epp(core_epp, cfg.amd_epp_tune, W, TRUE)
            /\ IF W # Cores
               THEN /\ call' = [call EXCEPT ![c] = IdleCall]
                    /\ lock' = Free
                    /\ cs' = [cs EXCEPT !.acpu = @ + 1, !.cpu_req = "on",
                                        !.done = TRUE, !.result = "err"]
               ELSE /\ call' = [call EXCEPT ![c].pc = "gpu"]
                    /\ cs' = [cs EXCEPT !.acpu = @ + 1, !.cpu_req = "on"]
                    /\ UNCHANGED lock
       ELSE /\ cs' = [cs EXCEPT !.cpu_req = "off"]
            /\ call' = [call EXCEPT ![c].pc = "gpu"]
            /\ UNCHANGED <<baseline_epp, core_epp, lock>>
    /\ hist' = Audit([hist EXCEPT !.cpu_reqs = Append(@, <<cfg.enabled, cfg.amd_epp_base>>)])
    /\ UNCHANGED <<daemon_pc, gpu, active_pids, baseline_power_limit, mon, env_vars,
                   nrpc, gpu_limit>>

\* ApplyCpu that captures the baseline of every enabled request, not only the first
ApplyCpu_Recapture(c, cfg, W) ==
    /\ call[c].pc = "cpu"
    /\ IF cfg.enabled
       THEN /\ baseline_epp' = Some(cfg.amd_epp_base)
            /\ core_epp' = set_epp(core_epp, cfg.amd_epp_tune, W, TRUE)
            /\ cs' = [cs EXCEPT !.acpu = @ + 1, !.cpu_req = "on"]
       ELSE /\ cs' = [cs EXCEPT !.cpu_req = "off"]
            /\ UNCHANGED <<baseline_epp, core_epp>>
    /\ call' = [call EXCEPT ![c].pc = "gpu"]
    /\ hist' = Audit([hist EXCEPT !.cpu_reqs = Append(@, <<cfg.enabled, cfg.amd_epp_base>>)])
    /\ UNCHANGED <<daemon_pc, gpu, active_pids, baseline_power_limit, lock, mon, env_vars,
                   nrpc, gpu_limit>>

\* ApplyCpu that captures the baseline before it looks at the enabled flag
ApplyCpu_CaptureAlways(c, cfg, W) ==
    /\ call[c].pc = "cpu"
    /\ baseline_epp' = IF baseline_epp = None THEN Some(cfg.amd_epp_base) ELSE baseline_epp
    /\ IF cfg.enabled
       THEN /\ core_epp' = set_epp(core_epp, cfg.amd_epp_tune, W, TRUE)
            /\ cs' = [cs EXCEPT !.acpu = @ + 1, !.cpu_req = "on"]
       ELSE /\ cs' = [cs EXCEPT !.cpu_req = "off"]
            /\ UNCHANGED core_epp
    /\ call' = [call EXCEPT ![c].pc = "gpu"]
    /\ hist' = Audit([hist EXCEPT !.cpu_reqs = Append(@, <<cfg.enabled, cfg.amd_epp_base>>)])
    /\ UNCHANGED <<daemon_pc, gpu, active_pids, baseline_power_limit, lock, mon, env_vars,
                   nrpc, gpu_limit>>

\* DaemonState::apply_cpu_tuning, whose result apply_tuning only logs
ApplyCpu(c, cfg, W) ==
    /\ call[c].pc = "cpu"
    /\ IF cfg.enabled
       THEN /\ baseline_epp' = IF baseline_epp = None THEN Some(cfg.amd_epp_base)
                                                      ELSE baseline_epp
            /\ core_epp' = set_epp(core_epp, cfg.amd_epp_tune, W, TRUE)
            /\ cs' = [cs EXCEPT !.acpu = @ + 1, !.cpu_req = "on"]
       ELSE /\ cs' = [cs EXCEPT !.cpu_req = "off"]
            /\ UNCHANGED <<baseline_epp, core_epp>>
    /\ call' = [call EXCEPT ![c].pc = "gpu"]
    /\ hist' = Audit([hist EXCEPT !.cpu_reqs = Append(@, <<cfg.enabled, cfg.amd_epp_base>>)])
    /\ UNCHANGED <<daemon_pc, gpu, active_pids, baseline_power_limit, lock, mon, env_vars,
                   nrpc, gpu_limit>>


\* ApplyGpu that calls the adapter only when no pid is tracked yet
ApplyGpu_OncePerActivation(c, cfg, outcome) ==
    LET called == cfg.enabled /\ gpu /\ active_pids = {}
        err == cfg.enabled /\ (~gpu \/ (called /\ outcome # "ok"))
        written == called /\ outcome # "err_before"
                          /\ (cfg.set_max_pwr \/ IsSome(cfg.pwr_limit_tune))
    IN
    /\ call[c].pc = "gpu"
    /\ gpu_limit' = IF called
                    THEN set_power_limit(gpu_limit, cfg.pwr_limit_tune, cfg.set_max_pwr, outcome)
                    ELSE gpu_limit
    /\ hist' = Audit([hist EXCEPT !.gpu_set_pending = @ \/ written, !.gpu_cfg = cfg])
    /\ IF err
       THEN /\ call' = [call EXCEPT ![c] = IdleCall]
            /\ lock' = Free
            /\ cs' = [cs EXCEPT !.agpu = @ + (IF called THEN 1 ELSE 0),
                                !.gpu_req = "on", !.set_err = (called /\ outcome # "ok"),
                                !.failed_step = "gpu", !.done = TRUE, !.result = "err"]
       ELSE /\ call' = [call EXCEPT ![c].pc = "prio"]
            /\ cs' = [cs EXCEPT !.agpu = @ + (IF called THEN 1 ELSE 0),
                                !.gpu_req = IF cfg.enabled THEN "on" ELSE "off"]
            /\ UNCHANGED lock
    /\ UNCHANGED <<daemon_pc, daemon_vars, mon, env_vars, nrpc, core_epp>>

\* ApplyGpu whose Err is only logged, as the CPU step's is
ApplyGpu_LogOnly(c, cfg, outcome) ==
    LET called == cfg.enabled /\ gpu
        written == called /\ outcome # "err_before"
                          /\ (cfg.set_max_pwr \/ IsSome(cfg.pwr_limit_tune))
    IN
    /\ call[c].pc = "gpu"
    /\ gpu_limit' = IF called
                    THEN set_power_limit(gpu_limit, cfg.pwr_limit_tune, cfg.set_max_pwr, outcome)
                    ELSE gpu_limit
    /\ hist' = Audit([hist EXCEPT !.gpu_set_pending = @ \/ written, !.gpu_cfg = cfg])
    /\ call' = [call EXCEPT ![c].pc = "prio"]
    /\ cs' = [cs EXCEPT !.agpu = @ + (IF called THEN 1 ELSE 0),
                        !.gpu_req = IF cfg.enabled THEN "on" ELSE "off",
                        !.set_err = called /\ outcome # "ok"]
    /\ UNCHANGED <<daemon_pc, daemon_vars, lock, mon, env_vars, nrpc, core_epp>>

\* DaemonState::apply_gpu_tuning; on Err apply_tuning returns and the guard drops
ApplyGpu(c, cfg, outcome) ==
    LET called == cfg.enabled /\ gpu
        err == cfg.enabled /\ (~gpu \/ outcome # "ok")
        written == called /\ outcome # "err_before"
                          /\ (cfg.set_max_pwr \/ IsSome(cfg.pwr_limit_tune))
    IN
    /\ call[c].pc = "gpu"
    /\ gpu_limit' = IF called
                    THEN set_power_limit(gpu_limit, cfg.pwr_limit_tune, cfg.set_max_pwr, outcome)
                    ELSE gpu_limit
    /\ hist' = Audit([hist EXCEPT !.gpu_set_pending = @ \/ written, !.gpu_cfg = cfg])
    /\ IF err
       THEN /\ call' = [call EXCEPT ![c] = IdleCall]
            /\ lock' = Free
            /\ cs' = [cs EXCEPT !.agpu = @ + (IF called THEN 1 ELSE 0),
                                !.gpu_req = "on", !.set_err = (called /\ outcome # "ok"),
                                !.failed_step = "gpu", !.done = TRUE, !.result = "err"]
       ELSE /\ call' = [call EXCEPT ![c].pc = "prio"]
            /\ cs' = [cs EXCEPT !.agpu = @ + (IF called THEN 1 ELSE 0),
                                !.gpu_req = IF cfg.enabled THEN "on" ELSE "off"]
            /\ UNCHANGED lock
    /\ UNCHANGED <<daemon_pc, daemon_vars, mon, env_vars, nrpc, core_epp>>


\* ApplyPrio with the pid recorded before the priority step is known to succeed
ApplyPrio_AddFirst(c, cfg, setpriority_ok) ==
    LET called == cfg.enabled /\ cfg.proc_renice # 0
        err == called /\ ~setpriority_ok
    IN
    /\ call[c].pc = "prio"
    /\ active_pids' = active_pids \cup {call[c].pid}
    /\ IF err
       THEN /\ call' = [call EXCEPT ![c] = IdleCall]
            /\ lock' = Free
            /\ cs' = [cs EXCEPT !.failed_step = "prio", !.done = TRUE, !.result = "err"]
       ELSE /\ call' = [call EXCEPT ![c].pc = "add",
                                    ![c].interval = cfg.watchdog_interval_sec]
            /\ UNCHANGED <<lock, cs>>
    /\ UNCHANGED <<daemon_pc, gpu, baseline_power_limit, baseline_epp, mon, env_vars, nrpc,
                   hw_vars, hist>>

\* ApplyPrio that looks at proc_renice alone
ApplyPrio_IgnoreFlag(c, cfg, setpriority_ok) ==
    LET called == cfg.proc_renice # 0
        err == called /\ ~setpriority_ok
    IN
    /\ call[c].pc = "prio"
    /\ IF err
       THEN /\ call' = [call EXCEPT ![c] = IdleCall]
            /\ lock' = Free
            /\ cs' = [cs EXCEPT !.failed_step = "prio", !.done = TRUE, !.result = "err"]
       ELSE /\ call' = [call EXCEPT ![c].pc = "add",
                                    ![c].interval = cfg.watchdog_interval_sec]
            /\ UNCHANGED <<lock, cs>>
    /\ hist' = Audit([hist EXCEPT !.prio =
                        [seen |-> TRUE, pid |-> call[c].pid, enabled |-> cfg.enabled,
                         renice |-> cfg.proc_renice, called |-> called,
                         ok |-> (called => setpriority_ok)]])
    /\ UNCHANGED <<daemon_pc, daemon_vars, mon, env_vars, nrpc, hw_vars>>

\* DaemonState::apply_process_priority; setpriority_ok is libc::setpriority() == 0
ApplyPrio(c, cfg, setpriority_ok) ==
    LET called == cfg.enabled /\ cfg.proc_renice # 0
        err == called /\ ~setpriority_ok
    IN
    /\ call[c].pc = "prio"
    /\ IF err
       THEN /\ call' = [call EXCEPT ![c] = IdleCall]
            /\ lock' = Free
            /\ cs' = [cs EXCEPT !.failed_step = "prio", !.done = TRUE, !.result = "err"]
       ELSE /\ call' = [call EXCEPT ![c].pc = "add",
                                    ![c].interval = cfg.watchdog_interval_sec]
            /\ UNCHANGED <<lock, cs>>
    /\ hist' = Audit([hist EXCEPT !.prio =
                        [seen |-> TRUE, pid |-> call[c].pid, enabled |-> cfg.enabled,
                         renice |-> cfg.proc_renice, called |-> called,
                         ok |-> (called => setpriority_ok)]])
    /\ UNCHANGED <<daemon_pc, daemon_vars, mon, env_vars, nrpc, hw_vars>>

\* ApplyAdd with the watchdog task spawned inside the block, before the guard drops
ApplyAdd_SpawnInside(c) ==
    /\ call[c].pc = "add"
    /\ active_pids' = active_pids \cup {call[c].pid}
    /\ mon' = [mon EXCEPT ![LowestFreeMon] =
                 [pc |-> "sleep", pid |-> call[c].pid, interval |-> call[c].interval]]
    /\ call' = [call EXCEPT ![c].pc = "spawn"]
    /\ lock' = Free
    /\ cs' = [cs EXCEPT !.done = TRUE, !.result = "ok"]
    /\ UNCHANGED <<daemon_pc, gpu, baseline_power_limit, baseline_epp, env_vars, nrpc,
                   hw_vars, hist>>

\* DaemonState::add_active_pid, then the block ends and the guard drops
ApplyAdd(c) ==
    /\ call[c].pc = "add"
    /\ active_pids' = active_pids \cup {call[c].pid}
    /\ call' = [call EXCEPT ![c].pc = "spawn"]
    /\ lock' = Free
    /\ cs' = [cs EXCEPT !.done = TRUE, !.result = "ok"]
    /\ hist' = Audit([hist EXCEPT !.fresh = IF call[c].pid \in alive
                                            THEN @ \cup {call[c].pid}
                                            ELSE @ \ {call[c].pid},
                                  !.cpu_applied = @ \/ cs.cpu_req = "on"])
    /\ UNCHANGED <<daemon_pc, gpu, baseline_power_limit, baseline_epp, mon, env_vars, nrpc,
                   hw_vars>>

\* start_pid_watchdog spawns the task; apply_tuning returns Ok(())
ApplySpawn(c) ==
    /\ call[c].pc = "spawn"
    /\ mon' = [mon EXCEPT ![LowestFreeMon] =
                 [pc |-> "sleep", pid |-> call[c].pid, interval |-> call[c].interval]]
    /\ call' = [call EXCEPT ![c] = IdleCall]
    /\ hist' = Audit([hist EXCEPT !.ok_pids = @ \cup {call[c].pid}])
    /\ UNCHANGED <<daemon_pc, daemon_vars, lock, env_vars, nrpc, hw_vars, cs>>

\* ------------------------------------------------------------------ restore steps
\* DaemonState::restore_gpu_defaults: Err iff the handle exists and NVML fails
restore_gpu_err(outcome) == gpu /\ outcome # "ok"
restore_gpu_limit(outcome) == IF gpu THEN restore_defaults(gpu_limit, outcome) ELSE gpu_limit

\* DaemonState::restore_cpu_defaults: set_epp(baseline) when a baseline was captured;
\* set_epp never returns Err, so neither does this
restore_cpu_err == FALSE
restore_cpu_cores(W) ==
    IF IsSome(baseline_epp) THEN set_epp(core_epp, Unwrap(baseline_epp), W, FALSE)
    ELSE core_epp

AfterGpuRestore(h, by, outcome) ==
    Audit([h EXCEPT !.passes = @ + 1, !.last_restorer = by, !.gpu_set_pending = FALSE,
                    !.restore_failed = @ \/ restore_gpu_err(outcome)])

\* ------------------------------------------------------------------ reset_tuning

\* ResetEnter that does not wait for the mutex
ResetEnter_NoLock(c) ==
    /\ Accept(c)
    /\ lock' = ByCall(c)
    /\ call' = [call EXCEPT ![c] = [IdleCall EXCEPT !.pc = "rgpu"]]
    /\ cs' = NewCs("reset", 0)
    /\ UNCHANGED <<daemon_pc, daemon_vars, mon, env_vars, hw_vars, hist>>

\* self.state.lock(): the call blocks while another holds the mutex
ResetEnter(c) ==
    /\ Accept(c)
    /\ lock = Free
    /\ lock' = ByCall(c)
    /\ call' = [call EXCEPT ![c] = [IdleCall EXCEPT !.pc = "rgpu"]]
    /\ cs' = NewCs("reset", 0)
    /\ UNCHANGED <<daemon_pc, daemon_vars, mon, env_vars, hw_vars, hist>>


\* ResetGpu that returns the GPU error at once (a `?` instead of `success = false`)
ResetGpu_EarlyReturn(c, outcome) ==
    /\ call[c].pc = "rgpu"
    /\ gpu_limit' = restore_gpu_limit(outcome)
    /\ IF restore_gpu_err(outcome)
       THEN /\ call' = [call EXCEPT ![c] = IdleCall]
            /\ lock' = Free
            /\ cs' = [cs EXCEPT !.rgpu = @ + 1, !.agpu = @ + 1, !.gpu_err = TRUE,
                                !.done = TRUE, !.result = "err"]
       ELSE /\ call' = [call EXCEPT ![c].pc = "rcpu"]
            /\ cs' = [cs EXCEPT !.rgpu = @ + 1, !.agpu = @ + (IF gpu THEN 1 ELSE 0)]
            /\ UNCHANGED lock
    /\ hist' = AfterGpuRestore(hist, <<"reset", 0>>, outcome)
    /\ UNCHANGED <<daemon_pc, daemon_vars, mon, env_vars, nrpc, core_epp>>

ResetGpu(c, outcome) ==
    /\ call[c].pc = "rgpu"
    /\ gpu_limit' = restore_gpu_limit(outcome)
    /\ call' = [call EXCEPT ![c].pc = "rcpu",
                            ![c].success = IF restore_gpu_err(outcome) THEN FALSE ELSE @]
    /\ cs' = [cs EXCEPT !.rgpu = @ + 1, !.agpu = @ + (IF gpu THEN 1 ELSE 0),
                        !.gpu_err = restore_gpu_err(outcome)]
    /\ hist' = AfterGpuRestore(hist, <<"reset", 0>>, outcome)
    /\ UNCHANGED <<daemon_pc, daemon_vars, lock, mon, env_vars, nrpc, core_epp>>

ResetCpu(c, W) ==
    /\ call[c].pc = "rcpu"
    /\ core_epp' = restore_cpu_cores(W)
    /\ call' = [call EXCEPT ![c].pc = "clear",
                            ![c].success = IF restore_cpu_err THEN FALSE ELSE @]
    /\ cs' = [cs EXCEPT !.rcpu = @ + 1, !.acpu = @ + (IF IsSome(baseline_epp) THEN 1 ELSE 0)]
    /\ UNCHANGED <<daemon_pc, daemon_vars, lock, mon, env_vars, nrpc, gpu_limit, hist>>


\* ResetClear that keeps the tracking when a restore step failed
ResetClear_KeepOnError(c) ==
    /\ call[c].pc = "clear"
    /\ active_pids' = IF call[c].success THEN {} ELSE active_pids
    /\ call' = [call EXCEPT ![c] = IdleCall]
    /\ lock' = Free
    /\ cs' = [cs EXCEPT !.emptied = (active_pids # {} /\ active_pids' = {}), !.done = TRUE,
                        !.result = IF call[c].success THEN "ok" ELSE "err"]
    /\ UNCHANGED <<daemon_pc, gpu, baseline_power_limit, baseline_epp, mon, env_vars, nrpc,
                   hw_vars, hist>>

\* ResetClear that also stops every watchdog task
ResetClear_CancelMonitors(c) ==
    /\ call[c].pc = "clear"
    /\ active_pids' = {}
    /\ mon' = [m \in Mons |-> IF mon[m].pc = "sleep" THEN FreeMon ELSE mon[m]]
    /\ call' = [call EXCEPT ![c] = IdleCall]
    /\ lock' = Free
    /\ cs' = [cs EXCEPT !.emptied = (active_pids # {}), !.done = TRUE,
                        !.result = IF call[c].success THEN "ok" ELSE "err"]
    /\ UNCHANGED <<daemon_pc, gpu, baseline_power_limit, baseline_epp, env_vars, nrpc,
                   hw_vars, hist>>

\* active_pids.clear(), then the result is returned and the guard drops
ResetClear(c) ==
    /\ call[c].pc = "clear"
    /\ active_pids' = {}
    /\ call' = [call EXCEPT ![c] = IdleCall]
    /\ lock' = Free
    /\ cs' = [cs EXCEPT !.emptied = (active_pids # {}), !.done = TRUE,
                        !.result = IF call[c].success THEN "ok" ELSE "err"]
    /\ hist' = Audit([hist EXCEPT !.fresh = {}])
    /\ UNCHANGED <<daemon_pc, gpu, baseline_power_limit, baseline_epp, mon, env_vars, nrpc,
                   hw_vars>>

\* ------------------------------------------------------------------ watchdog task

\* MonProbe that takes the mutex before it probes, and keeps it
MonProbe_HoldLock(m) ==
    /\ mon[m].pc = "sleep"
    /\ lock \in {Free, ByMon(m)}
    /\ lock' = ByMon(m)
    /\ mon' = IF mon[m].pid \in alive THEN mon ELSE [mon EXCEPT ![m].pc = "dead"]
    /\ UNCHANGED <<daemon_pc, daemon_vars, call, env_vars, nrpc, hw_vars, cs, hist>>

\* MonProbe that breaks out of the loop as soon as it finds the pid dead
MonProbe_BreakOnDead(m) ==
    /\ mon[m].pc = "sleep"
    /\ mon' = IF mon[m].pid \in alive THEN mon ELSE [mon EXCEPT ![m] = FreeMon]
    /\ UNCHANGED <<daemon_pc, daemon_vars, lock, call, env_vars, nrpc, hw_vars, cs, hist>>

\* sleep, then is_pid_alive: loop while /proc/<pid> exists
MonProbe(m) ==
    /\ mon[m].pc = "sleep"
    /\ mon' = IF mon[m].pid \in alive THEN mon ELSE [mon EXCEPT ![m].pc = "dead"]
    /\ UNCHANGED <<daemon_pc, daemon_vars, lock, call, env_vars, nrpc, hw_vars, cs, hist>>


\* MonRemove that drops the whole set, as reset_tuning does, instead of its own pid
MonRemove_Clear(m) ==
    /\ mon[m].pc = "dead"
    /\ lock = Free
    /\ lock' = ByMon(m)
    /\ active_pids' = {}
    /\ mon' = [mon EXCEPT ![m].pc = "check"]
    /\ cs' = [NewCs("mon", mon[m].pid) EXCEPT !.emptied = (active_pids # {})]
    /\ UNCHANGED <<daemon_pc, gpu, baseline_power_limit, baseline_epp, call, env_vars, nrpc,
                   hw_vars, hist>>

\* state.lock(), remove_active_pid
MonRemove(m) ==
    /\ mon[m].pc = "dead"
    /\ lock = Free
    /\ lock' = ByMon(m)
    /\ active_pids' = active_pids \ {mon[m].pid}
    /\ mon' = [mon EXCEPT ![m].pc = "check"]
    /\ cs' = [NewCs("mon", mon[m].pid) EXCEPT
                !.emptied = (active_pids # {} /\ active_pids' = {})]
    /\ UNCHANGED <<daemon_pc, gpu, baseline_power_limit, baseline_epp, call, env_vars, nrpc,
                   hw_vars, hist>>


\* MonCheck with the emptiness test inverted
MonCheck_Inverted(m) ==
    /\ mon[m].pc = "check"
    /\ IF active_pids # {}
       THEN /\ mon' = [mon EXCEPT ![m].pc = "rgpu"]
            /\ UNCHANGED <<lock, cs>>
       ELSE /\ mon' = [mon EXCEPT ![m] = FreeMon]
            /\ lock' = Free
            /\ cs' = [cs EXCEPT !.done = TRUE]
    /\ UNCHANGED <<daemon_pc, daemon_vars, call, env_vars, nrpc, hw_vars, hist>>

\* MonCheck without the emptiness test: every cleanup restores
MonCheck_Unconditional(m) ==
    /\ mon[m].pc = "check"
    /\ mon' = [mon EXCEPT ![m].pc = "rgpu"]
    /\ UNCHANGED <<daemon_pc, daemon_vars, lock, call, env_vars, nrpc, hw_vars, cs, hist>>

\* if state.active_pids.is_empty() { restore } ; break
MonCheck(m) ==
    /\ mon[m].pc = "check"
    /\ IF active_pids = {}
       THEN /\ mon' = [mon EXCEPT ![m].pc = "rgpu"]
            /\ UNCHANGED <<lock, cs>>
       ELSE /\ mon' = [mon EXCEPT ![m] = FreeMon]
            /\ lock' = Free
            /\ cs' = [cs EXCEPT !.done = TRUE]
    /\ UNCHANGED <<daemon_pc, daemon_vars, call, env_vars, nrpc, hw_vars, hist>>

\* MonRestoreGpu that breaks out of the loop when the GPU restore fails
MonRestoreGpu_BreakOnErr(m, outcome) ==
    /\ mon[m].pc = "rgpu"
    /\ gpu_limit' = restore_gpu_limit(outcome)
    /\ IF restore_gpu_err(outcome)
       THEN /\ mon' = [mon EXCEPT ![m] = FreeMon]
            /\ lock' = Free
            /\ cs' = [cs EXCEPT !.rgpu = @ + 1, !.agpu = @ + 1, !.gpu_err = TRUE,
                                !.done = TRUE]
       ELSE /\ mon' = [mon EXCEPT ![m].pc = "rcpu"]
            /\ cs' = [cs EXCEPT !.rgpu = @ + 1, !.agpu = @ + (IF gpu THEN 1 ELSE 0)]
            /\ UNCHANGED lock
    /\ hist' = AfterGpuRestore(hist, <<"mon", mon[m].pid>>, outcome)
    /\ UNCHANGED <<daemon_pc, daemon_vars, call, env_vars, nrpc, core_epp>>

\* restore_gpu_defaults; an Err is logged
MonRestoreGpu(m, outcome) ==
    /\ mon[m].pc = "rgpu"
    /\ gpu_limit' = restore_gpu_limit(outcome)
    /\ mon' = [mon EXCEPT ![m].pc = "rcpu"]
    /\ cs' = [cs EXCEPT !.rgpu = @ + 1, !.agpu = @ + (IF gpu THEN 1 ELSE 0),
                        !.gpu_err = restore_gpu_err(outcome)]
    /\ hist' = AfterGpuRestore(hist, <<"mon", mon[m].pid>>, outcome)
    /\ UNCHANGED <<daemon_pc, daemon_vars, lock, call, env_vars, nrpc, core_epp>>

\* the CPU restore, then the task breaks out of its loop and the guard drops
MonRestoreCpu(m, W) ==
    /\ mon[m].pc = "rcpu"
    /\ core_epp' = restore_cpu_cores(W)
    /\ mon' = [mon EXCEPT ![m] = FreeMon]
    /\ lock' = Free
    /\ cs' = [cs EXCEPT !.rcpu = @ + 1, !.acpu = @ + (IF IsSome(baseline_epp) THEN 1 ELSE 0),
                        !.done = TRUE]
    /\ UNCHANGED <<daemon_pc, daemon_vars, call, env_vars, nrpc, gpu_limit, hist>>

\* ------------------------------------------------------------------ environment
\* a process exits: /proc/<pid> disappears
Die(p) ==
    /\ p \in alive
    /\ alive' = alive \ {p}
    /\ hist' = Audit([hist EXCEPT !.fresh = @ \ {p}])
    /\ UNCHANGED <<daemon_pc, daemon_vars, lock, call, mon, respawns, audit, proc,
                   epp_call, client, nrpc, hw_vars, cs>>

\* the kernel hands the pid number to a new process
Respawn(p) ==
    /\ p \notin alive
    /\ respawns < MaxRespawn
    /\ alive' = alive \cup {p}
    /\ respawns' = respawns + 1
    /\ UNCHANGED <<daemon_pc, daemon_vars, lock, call, mon, audit, proc, epp_call, client,
                   nrpc, hw_vars, cs, hist>>

\* ------------------------------------------------------------------ specification
Next ==
    \/ \E o \in InitGpuOutcomes : InitGpu(o)
    \/ \E c \in Calls, p \in Pids, b \in Blobs : ApplyTuningBadJson(c, p, b)
    \/ \E c \in Calls, p \in Pids : ApplyTuningEnter(c, p)
    \/ \E c \in Calls, cfg \in CpuConfigs, W \in SUBSET Cores : ApplyCpu(c, cfg, W)
    \/ \E c \in Calls, cfg \in GpuConfigs, o \in GpuOutcomes : ApplyGpu(c, cfg, o)
    \/ \E c \in Calls, cfg \in SysConfigs, ok \in BOOLEAN : ApplyPrio(c, cfg, ok)
    \/ \E c \in Calls : ApplyAdd(c)
    \/ \E c \in Calls : ApplySpawn(c)
    \/ \E c \in Calls : ResetEnter(c)
    \/ \E c \in Calls, o \in RestoreOutcomes : ResetGpu(c, o)
    \/ \E c \in Calls, W \in SUBSET Cores : ResetCpu(c, W)
    \/ \E c \in Calls : ResetClear(c)
    \/ \E m \in Mons : MonProbe(m)
    \/ \E m \in Mons : MonRemove(m)
    \/ \E m \in Mons : MonCheck(m)
    \/ \E m \in Mons, o \in RestoreOutcomes : MonRestoreGpu(m, o)
    \/ \E m \in Mons, W \in SUBSET Cores : MonRestoreCpu(m, W)
    \/ \E p \in Pids : Die(p)
    \/ \E p \in Pids : Respawn(p)

Spec == Init /\ [][Next]_vars

\* ------------------------------------------------------------------ other specifications
\* every action, with part of the run's totals recorded
SpecAudit == InitAudit /\ [][Next]_vars

\* The CPU sections of the requests recorded. Every request deserializes, its GPU
\* section asks for the maximum limit or is disabled, set_power_limit fails before
\* its write or not at all, every core accepts its write, and no pid is reused.
CpuRunGpuConfigs == {g \in GpuConfigs : g.set_max_pwr /\ g.pwr_limit_tune = None}

NextCpu ==
    \/ \E o \in InitGpuOutcomes : InitGpu(o)
    \/ \E c \in Calls, p \in Pids : ApplyTuningEnter(c, p)
    \/ \E c \in Calls, cfg \in CpuConfigs : ApplyCpu(c, cfg, Cores)
    \/ \E c \in Calls, cfg \in CpuRunGpuConfigs, o \in {"ok", "err_before"} : ApplyGpu(c, cfg, o)
    \/ \E c \in Calls, cfg \in SysConfigs, ok \in BOOLEAN : ApplyPrio(c, cfg, ok)
    \/ \E c \in Calls : ApplyAdd(c)
    \/ \E c \in Calls : ApplySpawn(c)
    \/ \E c \in Calls : ResetEnter(c)
    \/ \E c \in Calls, o \in RestoreOutcomes : ResetGpu(c, o)
    \/ \E c \in Calls : ResetCpu(c, Cores)
    \/ \E c \in Calls : ResetClear(c)
    \/ \E m \in Mons : MonProbe(m)
    \/ \E m \in Mons : MonRemove(m)
    \/ \E m \in Mons : MonCheck(m)
    \/ \E m \in Mons, o \in RestoreOutcomes : MonRestoreGpu(m, o)
    \/ \E m \in Mons : MonRestoreCpu(m, Cores)
    \/ \E p \in Pids : Die(p)

SpecCpu == InitCpu /\ [][NextCpu]_vars

\* The GPU section of the latest request recorded. Every request deserializes, every
\* core accepts its write, no ResetTuning arrives and no pid is reused.
NextGpu ==
    \/ \E o \in InitGpuOutcomes : InitGpu(o)
    \/ \E c \in Calls, p \in Pids : ApplyTuningEnter(c, p)
    \/ \E c \in Calls, cfg \in CpuConfigs : ApplyCpu(c, cfg, Cores)
    \/ \E c \in Calls, cfg \in GpuConfigs, o \in GpuOutcomes : ApplyGpu(c, cfg, o)
    \/ \E c \in Calls, cfg \in SysConfigs, ok \in BOOLEAN : ApplyPrio(c, cfg, ok)
    \/ \E c \in Calls : ApplyAdd(c)
    \/ \E c \in Calls : ApplySpawn(c)
    \/ \E m \in Mons : MonProbe(m)
    \/ \E m \in Mons : MonRemove(m)
    \/ \E m \in Mons : MonCheck(m)
    \/ \E m \in Mons, o \in RestoreOutcomes : MonRestoreGpu(m, o)
    \/ \E m \in Mons : MonRestoreCpu(m, Cores)
    \/ \E p \in Pids : Die(p)

SpecGpu == InitGpuReq /\ [][NextGpu]_vars

\* The registrations of running processes recorded, with pid numbers reused. Requests
\* and adapter outcomes are those of NextCpu.
InitReuse == Start({"fresh"})

NextReuse ==
    \/ NextCpu
    \/ \E p \in Pids : Respawn(p)

SpecReuse == InitReuse /\ [][NextReuse]_vars

\* The priority step of the latest request recorded; requests and adapter outcomes
\* are those of NextCpu.
InitPrio == Start({"prio"})

SpecPrio == InitPrio /\ [][NextCpu]_vars

\* Whether a successful request tuned the CPU recorded; requests and adapter outcomes
\* are those of NextCpu, where every core accepts every write.
InitRestore == Start({"cpu_applied"})

SpecRestore == InitRestore /\ [][NextCpu]_vars

\* Requests whose sys sections differ in watchdog_interval_sec. Every request
\* deserializes, its GPU section asks for the maximum limit or is disabled,
\* set_power_limit fails before its write or not at all, every core accepts its
\* write, no ResetTuning arrives and no pid is reused.
SysRunConfigs ==
    [enabled : BOOLEAN, proc_renice : {0, -5}, watchdog_interval_sec : {5, 10}]

NextSys ==
    \/ \E o \in InitGpuOutcomes : InitGpu(o)
    \/ \E c \in Calls, p \in Pids : ApplyTuningEnter(c, p)
    \/ \E c \in Calls, cfg \in CpuConfigs : ApplyCpu(c, cfg, Cores)
    \/ \E c \in Calls, cfg \in CpuRunGpuConfigs, o \in {"ok", "err_before"} : ApplyGpu(c, cfg, o)
    \/ \E c \in Calls, cfg \in SysRunConfigs, ok \in BOOLEAN : ApplyPrio(c, cfg, ok)
    \/ \E c \in Calls : ApplyAdd(c)
    \/ \E c \in Calls : ApplySpawn(c)
    \/ \E m \in Mons : MonProbe(m)
    \/ \E m \in Mons : MonRemove(m)
    \/ \E m \in Mons : MonCheck(m)
    \/ \E m \in Mons, o \in RestoreOutcomes : MonRestoreGpu(m, o)
    \/ \E m \in Mons : MonRestoreCpu(m, Cores)
    \/ \E p \in Pids : Die(p)

SpecSys == Init /\ [][NextSys]_vars

\* Request as a client builds it: the version byte and the command. The interface of
\* the service has the methods apply_tuning(pid, config_json) and reset_tuning() and
\* no method for Command::Status; a method call carries the fields of the command and
\* nothing of the version.
CURRENT_VERSION == 1
Versions == {CURRENT_VERSION, CURRENT_VERSION + 1}
Requests ==
    [version : Versions,
     command : [kind : {"ApplyTuning"}, pid : Pids, cmd : Blobs]
                 \cup {[kind |-> "ResetTuning", pid |-> 0, cmd |-> AllFull]}]

\* the service handles the request req
Serve(c, req) ==
    IF req.command.kind = "ApplyTuning"
    THEN \/ ApplyTuningBadJson(c, req.command.pid, req.command.cmd)
         \/ /\ TuningConfig_from_str(req.command.cmd)
            /\ ApplyTuningEnter(c, req.command.pid)
    ELSE ResetEnter(c)

\* The calls made from Request values. The GPU section of a request asks for the
\* maximum limit or is disabled, set_power_limit fails before its write or not at
\* all, every core accepts its write, and no pid is reused.
NextProto ==
    \/ \E o \in InitGpuOutcomes : InitGpu(o)
    \/ \E c \in Calls, req \in Requests : Serve(c, req)
    \/ \E c \in Calls, cfg \in CpuConfigs : ApplyCpu(c, cfg, Cores)
    \/ \E c \in Calls, cfg \in CpuRunGpuConfigs, o \in {"ok", "err_before"} : ApplyGpu(c, cfg, o)
    \/ \E c \in Calls, cfg \in SysConfigs, ok \in BOOLEAN : ApplyPrio(c, cfg, ok)
    \/ \E c \in Calls : ApplyAdd(c)
    \/ \E c \in Calls : ApplySpawn(c)
    \/ \E c \in Calls, o \in RestoreOutcomes : ResetGpu(c, o)
    \/ \E c \in Calls : ResetCpu(c, Cores)
    \/ \E c \in Calls : ResetClear(c)
    \/ \E m \in Mons : MonProbe(m)
    \/ \E m \in Mons : MonRemove(m)
    \/ \E m \in Mons : MonCheck(m)
    \/ \E m \in Mons, o \in RestoreOutcomes : MonRestoreGpu(m, o)
    \/ \E m \in Mons : MonRestoreCpu(m, Cores)
    \/ \E p \in Pids : Die(p)

SpecProto == Init /\ [][NextProto]_vars

\* ------------------------------------------------------------------ shutdown
\* NvPrimeDaemon::run is not part of the sources at hand; the path taken on a
\* termination signal follows the documented behaviour: one synchronous restore pass
\* under the state mutex (GPU defaults, then the baseline EPP), then process exit
\* with no watchdog task joined or cancelled.
ByMain == <<"main", 0>>


\* ShutdownEnter that exits at once
ShutdownEnter_ExitAtOnce ==
    /\ daemon_pc = "serving"
    /\ lock = Free
    /\ lock' = ByMain
    /\ daemon_pc' = "exited"
    /\ cs' = NewCs("shutdown", 0)
    /\ UNCHANGED <<daemon_vars, call, mon, env_vars, nrpc, hw_vars, hist>>

\* the signal arrives; the main task takes the mutex
ShutdownEnter ==
    /\ daemon_pc = "serving"
    /\ lock = Free
    /\ lock' = ByMain
    /\ daemon_pc' = "stop_gpu"
    /\ cs' = NewCs("shutdown", 0)
    /\ UNCHANGED <<daemon_vars, call, mon, env_vars, nrpc, hw_vars, hist>>

\* restore_gpu_defaults; its error is logged
ShutdownGpu(outcome) ==
    /\ daemon_pc = "stop_gpu"
    /\ daemon_pc' = "stop_cpu"
    /\ gpu_limit' = restore_gpu_limit(outcome)
    /\ cs' = [cs EXCEPT !.rgpu = @ + 1, !.agpu = @ + (IF gpu THEN 1 ELSE 0),
                        !.gpu_err = restore_gpu_err(outcome)]
    /\ UNCHANGED <<daemon_vars, lock, call, mon, env_vars, nrpc, core_epp, hist>>

\* restore_cpu_defaults, then the process exits
ShutdownCpu(W) ==
    /\ daemon_pc = "stop_cpu"
    /\ daemon_pc' = "exited"
    /\ core_epp' = restore_cpu_cores(W)
    /\ cs' = [cs EXCEPT !.rcpu = @ + 1, !.acpu = @ + (IF IsSome(baseline_epp) THEN 1 ELSE 0),
                        !.done = TRUE, !.result = "ok"]
    /\ UNCHANGED <<daemon_vars, lock, call, mon, env_vars, nrpc, gpu_limit, hist>>

\* The daemon with its shutdown path: calls and watchdog tasks run until the process
\* has exited (a call is accepted only while the daemon serves). Requests are those
\* of NextCpu.
Running == daemon_pc # "exited"

NextShutdown ==
    \/ \E o \in InitGpuOutcomes : InitGpu(o)
    \/ \E c \in Calls, p \in Pids : ApplyTuningEnter(c, p)
    \/ Running /\ \E c \in Calls, cfg \in CpuConfigs : ApplyCpu(c, cfg, Cores)
    \/ Running /\ \E c \in Calls, cfg \in CpuRunGpuConfigs, o \in {"ok", "err_before"} :
                     ApplyGpu(c, cfg, o)
    \/ Running /\ \E c \in Calls, cfg \in SysConfigs, ok \in BOOLEAN : ApplyPrio(c, cfg, ok)
    \/ Running /\ \E c \in Calls : ApplyAdd(c)
    \/ Running /\ \E c \in Calls : ApplySpawn(c)
    \/ \E c \in Calls : ResetEnter(c)
    \/ Running /\ \E c \in Calls, o \in RestoreOutcomes : ResetGpu(c, o)
    \/ Running /\ \E c \in Calls : ResetCpu(c, Cores)
    \/ Running /\ \E c \in Calls : ResetClear(c)
    \/ Running /\ \E m \in Mons : MonProbe(m)
    \/ Running /\ \E m \in Mons : MonRemove(m)
    \/ Running /\ \E m \in Mons : MonCheck(m)
    \/ Running /\ \E m \in Mons, o \in RestoreOutcomes : MonRestoreGpu(m, o)
    \/ Running /\ \E m \in Mons : MonRestoreCpu(m, Cores)
    \/ Running /\ \E p \in Pids : Die(p)
    \/ ShutdownEnter
    \/ \E o \in RestoreOutcomes : ShutdownGpu(o)
    \/ \E W \in SUBSET Cores : ShutdownCpu(W)

SpecShutdown == Init /\ [][NextShutdown]_vars

\* ------------------------------------------------------------------ privilege bootstrap
\* the binary is started: by root or by a user, with or without the marker and HOME
\* in its environment
InitElevate ==
    /\ Boot({})
    /\ proc \in {Image(b, av, e, m, h) :
                    b \in {"nvprime_sys", "daemon"}, av \in Argvs, e \in {"user", "root"},
                    m \in BOOLEAN, h \in {None, Some(UserHome)}}

\* main calls try_elevate (nvprime_sys.rs: process::try_elevate, daemon.rs:
\* Privilege::try_elevate); a later caller in the same image may call it again, as
\* NvTuner::from_config does
TryElevate(outcome) ==
    /\ proc.pc \in {"main", "after"}
    /\ proc.calls < MaxTry
    /\ proc.helper_calls < MaxExec
    /\ proc' = IF proc.bin = "nvprime_sys" THEN process_try_elevate(proc, outcome)
               ELSE Privilege_try_elevate(proc, outcome)
    /\ UNCHANGED <<daemon_pc, daemon_vars, lock, call, mon, alive, respawns, audit, nrpc,
                   hw_vars, cs, hist, epp_call, client>>

\* bin/nvprime_sys.rs main after try_elevate: if is_root, HOME is restored and
\* daemon.run() serves; otherwise main returns
MainSys ==
    /\ proc.bin = "nvprime_sys"
    /\ proc.pc = "after"
    /\ proc' = IF is_root(proc) THEN [RestoreHome(proc) EXCEPT !.pc = "run"]
               ELSE [proc EXCEPT !.pc = "exit"]
    /\ UNCHANGED <<daemon_pc, daemon_vars, lock, call, mon, alive, respawns, audit, nrpc,
                   hw_vars, cs, hist, epp_call, client>>

\* bin/daemon.rs main after try_elevate: HOME is restored if is_root, then exit(0)
MainStub ==
    /\ proc.bin = "daemon"
    /\ proc.pc = "after"
    /\ proc' = [RestoreHome(proc) EXCEPT !.pc = "exit"]
    /\ UNCHANGED <<daemon_pc, daemon_vars, lock, call, mon, alive, respawns, audit, nrpc,
                   hw_vars, cs, hist, epp_call, client>>

NextElevate ==
    \/ \E o \in ExecOutcomes : TryElevate(o)
    \/ MainSys
    \/ MainStub

SpecElevate == InitElevate /\ [][NextElevate]_vars

\* ------------------------------------------------------------------ EPP functions
\* the strings given to from_str and set_epp: the five names, names in another case,
\* and strings that are no name
ValidNames == {as_str(p) : p \in EppProfiles}
OtherCase == {"PERFORMANCE", "Balance_Power", "Balance_Performance", "DEFAULT", "Power"}
NoNames == {"invalid_mode", "INVALID_MODE", "", "balance", "performance "}
EppInputs == ValidNames \cup OtherCase \cup NoNames

\* the modes given to set_epp
SetEppModes == {"performance", "power", "Balance_Power", "invalid_mode"}

\* /sys/devices/system/cpu: present and readable, absent, or read_dir fails
CpuDirs == {"ok", "missing", "unreadable"}


\* epp_loop that leaves the loop at the first write that fails
RECURSIVE epp_loop_StopOnFail(_, _, _, _, _)
epp_loop_StopOnFail(k, profile_str, E, F, acc) ==
    IF k > NumCores THEN acc
    ELSE IF k \notin E THEN epp_loop_StopOnFail(k + 1, profile_str, E, F, acc)
    ELSE IF k \in F
    THEN [acc EXCEPT !.attempted = @ \cup {k}, !.fail_count = @ + 1]
    ELSE epp_loop_StopOnFail(k + 1, profile_str, E, F,
                  [acc EXCEPT !.attempted = @ \cup {k}, !.success_count = @ + 1,
                              !.cores[k].epp = profile_str])

\* the loop of set_epp over the cpuN entries from k on: E are the cores whose
\* energy_performance_preference file exists, F those whose write fails
RECURSIVE epp_loop(_, _, _, _, _)
epp_loop(k, profile_str, E, F, acc) ==
    IF k > NumCores THEN acc
    ELSE IF k \notin E THEN epp_loop(k + 1, profile_str, E, F, acc)
    ELSE IF k \in F
    THEN epp_loop(k + 1, profile_str, E, F,
                  [acc EXCEPT !.attempted = @ \cup {k}, !.fail_count = @ + 1])
    ELSE epp_loop(k + 1, profile_str, E, F,
                  [acc EXCEPT !.attempted = @ \cup {k}, !.success_count = @ + 1,
                              !.cores[k].epp = profile_str])

\* RyzenEPPManager::set_epp step by step: the cores it leaves behind, the writes it
\* attempted, its two counters and its result
set_epp_run(cores, mode, dir, E, F) ==
    LET p == from_str(mode)
        none == [cores |-> cores, attempted |-> {}, success_count |-> 0, fail_count |-> 0,
                 ret |-> "Ok"]
    IN  IF ~IsSome(p) THEN none
        ELSE IF dir # "ok" THEN none
        ELSE epp_loop(1, as_str(Unwrap(p)), E, F, none)

\* set_epp is called
SetEpp(mode, dir, E, F) ==
    LET out == set_epp_run(core_epp, mode, dir, E, F) IN
    /\ epp_call' = [kind |-> "set_epp", mode |-> mode, dir |-> dir, E |-> E, F |-> F,
                    before |-> core_epp, attempted |-> out.attempted,
                    success_count |-> out.success_count, fail_count |-> out.fail_count,
                    ret |-> out.ret]
    /\ core_epp' = out.cores
    /\ UNCHANGED <<daemon_pc, daemon_vars, lock, call, mon, alive, respawns, audit, nrpc,
                   gpu_limit, cs, hist, proc, client>>

\* EppProfile::from_str is called
ParseEpp(s) ==
    /\ epp_call' = [kind |-> "from_str", s |-> s, out |-> from_str(s)]
    /\ UNCHANGED <<daemon_pc, daemon_vars, lock, call, mon, alive, respawns, audit, nrpc,
                   hw_vars, cs, hist, proc, client>>

\* as_str is called, and from_str on what it returned
RenderEpp(p) ==
    /\ epp_call' = [kind |-> "as_str", p |-> p, out |-> as_str(p),
                    back |-> from_str(as_str(p))]
    /\ UNCHANGED <<daemon_pc, daemon_vars, lock, call, mon, alive, respawns, audit, nrpc,
                   hw_vars, cs, hist, proc, client>>

NextEpp ==
    \/ \E mode \in SetEppModes, dir \in CpuDirs, E \in SUBSET Cores, F \in SUBSET Cores :
          SetEpp(mode, dir, E, F)
    \/ \E s \in EppInputs : ParseEpp(s)
    \/ \E p \in EppProfiles : RenderEpp(p)

SpecEpp == Init /\ [][NextEpp]_vars

\* Two clients, one ApplyTuning each for PidA and PidB, no ResetTuning, no pid
\* reuse; once both calls returned Ok, PidA's process exits and then PidB's.
PidA == NumPids - 1
PidB == NumPids

AB_Apply(c, p) == p \notin hist.applied /\ ApplyTuningEnter(c, p)

AB_Die(p) ==
    /\ hist.ok_pids = {PidA, PidB}
    /\ p = PidB => PidA \notin alive
    /\ Die(p)

NextAB ==
    \/ \E o \in InitGpuOutcomes : InitGpu(o)
    \/ \E c \in Calls, p \in {PidA, PidB} : AB_Apply(c, p)
    \/ \E c \in Calls, cfg \in CpuConfigs, W \in SUBSET Cores : ApplyCpu(c, cfg, W)
    \/ \E c \in Calls, cfg \in GpuConfigs, o \in GpuOutcomes : ApplyGpu(c, cfg, o)
    \/ \E c \in Calls, cfg \in SysConfigs, ok \in BOOLEAN : ApplyPrio(c, cfg, ok)
    \/ \E c \in Calls : ApplyAdd(c)
    \/ \E c \in Calls : ApplySpawn(c)
    \/ \E m \in Mons : MonProbe(m)
    \/ \E m \in Mons : MonRemove(m)
    \/ \E m \in Mons : MonCheck(m)
    \/ \E m \in Mons, o \in RestoreOutcomes : MonRestoreGpu(m, o)
    \/ \E m \in Mons, W \in SUBSET Cores : MonRestoreCpu(m, W)
    \/ \E p \in {PidA, PidB} : AB_Die(p)

SpecAB == InitAll /\ [][NextAB]_vars

\* ------------------------------------------------------------------ state predicates
NoCallInFlight == \A c \in Calls : call[c].pc = "idle"
NoMonitor == \A m \in Mons : mon[m].pc = "free"
Quiescent == lock = Free /\ NoCallInFlight /\ NoMonitor
Untuned == gpu_limit = DefaultLimit /\ \A k \in Cores : ~core_epp[k].tuned

\* ================================================================== claims
\* C1: every critical section in which active_pids goes from non-empty to empty
\* (reset_tuning's clear, or a watchdog removing the last pid) calls
\* restore_gpu_defaults exactly once and restore_cpu_defaults exactly once, and no
\* critical section calls either more than once.
C1_OneRestorePerEmptying ==
    /\ cs.rgpu <= 1 /\ cs.rcpu <= 1
    /\ (cs.done /\ cs.emptied) => (cs.rgpu = 1 /\ cs.rcpu = 1)

\* a watchdog removed the last pid and restored, the GPU adapter included
C1_Witness ==
    cs.kind = "mon" /\ cs.done /\ cs.emptied /\ cs.rgpu = 1 /\ cs.rcpu = 1 /\ cs.agpu = 1

\* the A-then-B scenario has run to its end
AB_Done ==
    /\ hist.ok_pids = {PidA, PidB}
    /\ alive \cap {PidA, PidB} = {}
    /\ Quiescent

\* C2 as claimed: once both calls succeeded, A died, B died and both cleanups ran,
\* there was exactly one restore pass, PidB's watchdog performed it, and active_pids
\* is empty.
C2_RestoreByB ==
    AB_Done => /\ hist.passes = 1
               /\ hist.last_restorer = <<"mon", PidB>>
               /\ active_pids = {}

\* C2 as amended: exactly one restore pass, not before both processes are gone,
\* performed by whichever of the two cleanups runs last, and active_pids is empty.
C2_RestoreByLastCleanup ==
    /\ hist.passes > 0 => alive \cap {PidA, PidB} = {}
    /\ AB_Done => /\ hist.passes = 1
                  /\ hist.last_restorer \in {<<"mon", PidA>>, <<"mon", PidB>>}
                  /\ cs.kind = "mon" /\ cs.rgpu = 1 /\ hist.last_restorer[2] = cs.pid
                  /\ active_pids = {}

\* the scenario ended with PidA's watchdog cleaning up last and restoring
C2_Witness ==
    AB_Done /\ hist.passes = 1 /\ hist.last_restorer = <<"mon", PidA>>

\* C3: a watchdog cleanup that leaves another pid in active_pids after removing its
\* own calls no restore function and no adapter, and the other pids stay tracked.
C3_NoSpuriousRestore ==
    (cs.kind = "mon" /\ cs.before \ {cs.pid} # {}) =>
        /\ cs.rgpu = 0 /\ cs.rcpu = 0 /\ cs.agpu = 0 /\ cs.acpu = 0
        /\ active_pids = cs.before \ {cs.pid}

\* a dead pid's cleanup ran after another pid had been committed, and ended
C3_Witness ==
    /\ cs.kind = "mon" /\ cs.done
    /\ cs.pid \in cs.before /\ cs.pid \notin alive
    /\ cs.before \ {cs.pid} # {}
    /\ active_pids # {}

\* C4 as claimed, in the form a finite run decides: when some pid was tracked, all
\* tracked pids are gone and nothing is left to run (no call, no watchdog),
\* active_pids is empty and the last power limit that set_power_limit wrote was
\* followed by a restore pass.
C4_RestoredAtRest ==
    (Quiescent /\ hist.ok_pids # {} /\ hist.ok_pids \cap alive = {}) =>
        (active_pids = {} /\ ~hist.gpu_set_pending)

\* C5 as claimed: as long as no restore adapter call failed, whenever active_pids is
\* empty and the mutex is free the GPU limit is the default and no core carries an
\* EPP value written by apply_cpu_tuning.
C5_IdleMeansUntuned ==
    (~hist.restore_failed /\ active_pids = {} /\ lock = Free) => Untuned

\* C6: the step in which apply_tuning returns Err leaves active_pids as it was when
\* the call took the mutex, starts no watchdog and leaves no spawn pending.
C6_FailedApplyUntracked ==
    [][\A c \in Calls :
          (call[c].pc \in {"cpu", "gpu", "prio", "add"} /\ cs'.done /\ cs'.result = "err")
              => /\ active_pids' = cs.before
                 /\ mon' = mon
                 /\ call'[c] = IdleCall]_vars

\* apply_tuning failed for a pid that is not tracked
C6_Witness ==
    cs.kind = "apply" /\ cs.done /\ cs.result = "err" /\ cs.pid \notin active_pids

\* C7 as claimed: a watchdog cleanup that finds its pid already absent calls no
\* adapter and leaves active_pids as it was.
C7_AbsentPidNoOp ==
    (cs.kind = "mon" /\ cs.pid \notin cs.before) =>
        (cs.agpu = 0 /\ cs.acpu = 0 /\ active_pids = cs.before)

\* C8 as claimed: reset_tuning entered with active_pids empty calls no adapter and
\* returns Ok.
C8_ResetOnEmptyNoOp ==
    (cs.kind = "reset" /\ cs.before = {}) =>
        (cs.agpu = 0 /\ cs.acpu = 0 /\ (cs.done => cs.result = "ok"))

\* C9: once reset_tuning has returned, with Ok or with Err, active_pids is empty
\* (until the next critical section).
C9_ResetAlwaysClears ==
    (cs.kind = "reset" /\ cs.done) => active_pids = {}

\* reset_tuning returned Err for a failed GPU restore with pids tracked before it
C9_Witness ==
    cs.kind = "reset" /\ cs.done /\ cs.result = "err" /\ cs.gpu_err /\ cs.before # {}

\* C10: a finished reset_tuning called both restore functions once each, returned Ok
\* iff neither returned Err, and its result exists only once active_pids is cleared.
C10_ResetAggregates ==
    /\ (cs.kind = "reset" /\ cs.done) =>
          /\ cs.rgpu = 1 /\ cs.rcpu = 1
          /\ cs.result = "ok" <=> (~cs.gpu_err /\ ~restore_cpu_err)
    /\ (cs.kind = "reset" /\ cs.result # "none") => (cs.done /\ active_pids = {})

\* the GPU restore failed and the CPU baseline was still written through the adapter
C10_Witness ==
    /\ cs.kind = "reset" /\ cs.done /\ cs.gpu_err
    /\ cs.rcpu = 1 /\ cs.acpu = 1 /\ cs.result = "err"

\* C11: a step in which apply_tuning is dispatched and returns without ever taking
\* the mutex (the Err of a config_json that does not deserialize) changes nothing:
\* DaemonState, the hardware, the watchdog tasks and the adapter-call history of the
\* latest critical section are as before, and no call is left in flight.
C11_BadBlobNoEffect ==
    [][(nrpc' # nrpc /\ lock' = lock /\ call' = call) =>
          UNCHANGED <<daemon_vars, hw_vars, mon, cs>>]_vars

\* every call the daemon ever received carried a blob that did not deserialize
C11_Witness ==
    /\ daemon_pc = "serving" /\ nrpc = MaxRpc /\ cs.kind = "none"
    /\ active_pids = {} /\ baseline_epp = None /\ NoMonitor /\ Untuned

\* a watchdog task, or the pending spawn of one, exists for pid p
Watched(p) ==
    \/ \E c \in Calls : call[c].pc = "spawn" /\ call[c].pid = p
    \/ \E m \in Mons : mon[m].pc # "free" /\ mon[m].pid = p

\* C12: an apply_tuning whose request has gpu enabled, and which finds no GPU handle
\* or whose set_power_limit returns Err, has returned Err at the GPU step; it never
\* goes on to the later steps and never returns Ok.
C12_GpuFailureSurfaces ==
    (cs.kind = "apply" /\ cs.gpu_req = "on" /\ (~gpu \/ cs.set_err)) =>
        (cs.done /\ cs.result = "err" /\ cs.failed_step = "gpu")

\* set_power_limit failed and the caller got the error
C12_Witness ==
    cs.kind = "apply" /\ cs.gpu_req = "on" /\ gpu /\ cs.set_err /\ cs.result = "err"

\* C13: the CPU step of apply_tuning never ends the call, whatever cores set_epp
\* could write; and an apply_tuning in which neither the GPU nor the priority step
\* failed returned Ok with its pid in active_pids and its watchdog started (or about
\* to be).
C13_CpuFailureNotSurfaced ==
    /\ [][\A c \in Calls : (call[c].pc = "cpu" /\ call'[c] # call[c]) =>
             (call'[c].pc = "gpu" /\ lock' = lock /\ ~cs'.done /\ cs'.result = "none")]_vars
    /\ []((cs.kind = "apply" /\ cs.done /\ cs.failed_step = "none") =>
             (cs.result = "ok" /\ cs.pid \in active_pids /\ Watched(cs.pid)))

\* apply_tuning returned Ok although set_epp could not write some core
C13_Witness ==
    /\ cs.kind = "apply" /\ cs.done /\ cs.result = "ok" /\ cs.cpu_req = "on"
    /\ \E k \in Cores : ~core_epp[k].tuned
    /\ cs.pid \in active_pids /\ \E m \in Mons : mon[m].pc = "sleep" /\ mon[m].pid = cs.pid

\* C14 as claimed: the GPU step runs before the CPU step, so the CPU step has run
\* only if the GPU step has, and a call that failed at the GPU step made no CPU
\* adapter call.
C14_GpuBeforeCpu ==
    /\ (cs.kind = "apply" /\ cs.cpu_req # "none") => cs.gpu_req # "none"
    /\ (cs.kind = "apply" /\ cs.failed_step = "gpu") => cs.acpu = 0

\* C15: an apply_tuning whose request has gpu disabled makes no GPU adapter call and
\* does not fail at the GPU step, GPU handle or not; one whose request has cpu
\* disabled makes no CPU adapter call, and its CPU step leaves baseline_epp and the
\* cores as they were.
C15_DisabledMeansUntouched ==
    /\ []((cs.kind = "apply" /\ cs.gpu_req = "off") => (cs.agpu = 0 /\ cs.failed_step # "gpu"))
    /\ []((cs.kind = "apply" /\ cs.cpu_req = "off") => cs.acpu = 0)
    /\ [][\A c \in Calls : (call[c].pc = "cpu" /\ cs'.cpu_req = "off") =>
             UNCHANGED <<baseline_epp, core_epp>>]_vars

\* a request with cpu and gpu disabled succeeded on a daemon without GPU handle
C15_Witness ==
    /\ ~gpu /\ cs.kind = "apply" /\ cs.done /\ cs.result = "ok"
    /\ cs.gpu_req = "off" /\ cs.cpu_req = "off"
    /\ baseline_epp = None /\ cs.pid \in active_pids

\* amd_epp_base of the first request whose CPU step ran
FirstBase(reqs) == IF reqs = <<>> THEN None ELSE Some(reqs[1][2])

\* amd_epp_base of the first request whose CPU step ran with cpu enabled
RECURSIVE FirstEnabledBase(_)
FirstEnabledBase(reqs) ==
    IF reqs = <<>> THEN None
    ELSE IF reqs[1][1] THEN Some(reqs[1][2])
    ELSE FirstEnabledBase(Tail(reqs))

\* C16 as claimed: baseline_epp, once set, is the amd_epp_base of the first tuning
\* request, and no step changes it afterwards.
C16_BaselineFromFirstRequest ==
    /\ [](baseline_epp # None => baseline_epp = FirstBase(hist.cpu_reqs))
    /\ [][baseline_epp # None => baseline_epp' = baseline_epp]_vars

\* C16 as amended: baseline_epp is the amd_epp_base of the first request that reached
\* the CPU step with cpu enabled (unset while there was none), whether or not that
\* request then succeeded, and no step changes it once it is set.
C16_BaselineFromFirstEnabled ==
    /\ [](baseline_epp = FirstEnabledBase(hist.cpu_reqs))
    /\ [][baseline_epp # None => baseline_epp' = baseline_epp]_vars

\* a cpu-disabled request, then an enabled one declaring "balance", then an enabled
\* one declaring "balance_performance": the baseline is the second request's
C16_Witness ==
    /\ Len(hist.cpu_reqs) = 3
    /\ hist.cpu_reqs[1] = <<FALSE, "balance_performance">>
    /\ hist.cpu_reqs[2] = <<TRUE, "balance">>
    /\ hist.cpu_reqs[3] = <<TRUE, "balance_performance">>
    /\ baseline_epp = Some("balance")
    /\ Quiescent

\* C17 as claimed: an apply_tuning that returned Err left baseline_epp as it was when
\* the call took the mutex.
C17_FailedApplyKeepsBaseline ==
    (cs.kind = "apply" /\ cs.result = "err") => baseline_epp = hist.entry_epp

\* the power limit a GpuTune asks for, as the claim reads it
RequestedLimit(cfg, before) ==
    IF cfg.set_max_pwr THEN MaxLimit
    ELSE IF IsSome(cfg.pwr_limit_tune) THEN Unwrap(cfg.pwr_limit_tune)
    ELSE before

\* the power limit a GpuTune results in: a requested value is clamped into the
\* device's range, and a request with neither set_max_pwr nor a value writes nothing
ResultingLimit(cfg, before) ==
    IF cfg.set_max_pwr THEN MaxLimit
    ELSE IF IsSome(cfg.pwr_limit_tune) THEN clamp(Unwrap(cfg.pwr_limit_tune), MinLimit, MaxLimit)
    ELSE before

\* an apply_tuning that returned Ok, and no critical section since
AppliedOk == cs.kind = "apply" /\ cs.done /\ cs.result = "ok"

\* C19 as claimed: every successful apply_tuning called each enabled adapter, and
\* after one with gpu enabled the enforced limit is the maximum if set_max_pwr, else
\* the requested limit.
C19_LastRequestWins ==
    /\ AppliedOk /\ cs.cpu_req = "on" => cs.acpu = 1
    /\ AppliedOk /\ cs.gpu_req = "on" =>
          (cs.agpu = 1 /\ gpu_limit = RequestedLimit(hist.gpu_cfg, hist.entry_limit))

\* C19 as amended: every successful apply_tuning called each enabled adapter, whatever
\* pids were tracked, and after one with gpu enabled the enforced limit is the maximum
\* if set_max_pwr, else the requested limit clamped into the device's range, else
\* (nothing requested) what it was before the call.
C19_LastWriteWins ==
    /\ AppliedOk /\ cs.cpu_req = "on" => cs.acpu = 1
    /\ AppliedOk /\ cs.gpu_req = "on" =>
          (cs.agpu = 1 /\ gpu_limit = ResultingLimit(hist.gpu_cfg, hist.entry_limit))

\* while a pid was tracked and the limit was the minimum, a request for more than the
\* device allows succeeded and left the limit at the maximum
C19_Witness ==
    /\ AppliedOk /\ cs.gpu_req = "on" /\ cs.before # {}
    /\ hist.entry_limit = MinLimit
    /\ ~hist.gpu_cfg.set_max_pwr /\ hist.gpu_cfg.pwr_limit_tune = Some(MaxLimit + 1)
    /\ gpu_limit = MaxLimit

\* C18: baseline_power_limit is unset or the device's default limit; it is set in
\* every state whose latest critical section called the NVML adapter (so before any
\* set_power_limit); and once set no step changes it.
C18_PowerBaseline ==
    /\ [](baseline_power_limit \in {None, Some(DefaultLimit)})
    /\ [](cs.agpu > 0 => baseline_power_limit = Some(DefaultLimit))
    /\ [][baseline_power_limit # None => baseline_power_limit' = baseline_power_limit]_vars

\* set_power_limit raised the limit to the maximum; the baseline is the default
C18_Witness ==
    /\ cs.kind = "apply" /\ cs.agpu = 1 /\ cs.done /\ cs.result = "ok"
    /\ gpu_limit = MaxLimit
    /\ baseline_power_limit = Some(DefaultLimit)

\* the program counter of a watchdog task moves only along these edges
MonEdges ==
    {<<"free", "sleep">>, <<"sleep", "dead">>, <<"dead", "check">>, <<"check", "rgpu">>,
     <<"check", "free">>, <<"rgpu", "rcpu">>, <<"rcpu", "free">>}

\* C20: a watchdog task keeps its pid and interval from spawn to termination; while
\* its pid is alive a sleeping task does not move, and the probe that finds the pid
\* dead changes neither DaemonState nor the hardware nor the mutex; from there the
\* task takes the mutex once, cleans up, and its critical section ends in its
\* termination; it terminates only as the holder of the mutex at the end of its own
\* cleanup; and no step of reset_tuning changes any watchdog task.
C20_MonitorLifecycle ==
    [][/\ \A m \in Mons :
            /\ mon'[m].pc # mon[m].pc => <<mon[m].pc, mon'[m].pc>> \in MonEdges
            /\ (mon[m].pc # "free" /\ mon'[m].pc # "free") =>
                  (mon'[m].pid = mon[m].pid /\ mon'[m].interval = mon[m].interval)
            /\ (mon[m].pc = "sleep" /\ mon[m].pid \in alive) => mon'[m] = mon[m]
            /\ (mon[m].pc = "sleep" /\ mon'[m].pc = "dead") =>
                  UNCHANGED <<daemon_vars, hw_vars, lock, cs>>
            /\ (mon[m].pc # "free" /\ mon'[m].pc = "free") =>
                  /\ lock = ByMon(m) /\ lock' = Free
                  /\ cs.kind = "mon" /\ cs.pid = mon[m].pid /\ cs'.done
                  /\ mon[m].pid \notin active_pids
       /\ (cs'.kind = "reset" /\ cs' # cs) => mon' = mon]_vars

\* reset_tuning returned while the watchdog of a pid it untracked had already seen
\* its pid dead and was about to clean up
C20_Witness ==
    /\ cs.kind = "reset" /\ cs.done
    /\ \E m \in Mons : mon[m].pc = "dead" /\ mon[m].pid \in cs.before

\* the watchdog tasks that have not terminated and watch pid p
LiveMonitors(p) == {m \in Mons : mon[m].pc # "free" /\ mon[m].pid = p}

\* C21 as claimed: no pid is watched by more than one live watchdog task.
C21_OneMonitorPerPid ==
    \A p \in Pids : Cardinality(LiveMonitors(p)) <= 1

\* the calls and the watchdog tasks that are between lock() and the drop of the guard
CallsInSection ==
    {c \in Calls : call[c].pc \in {"cpu", "gpu", "prio", "add", "rgpu", "rcpu", "clear"}}
MonsInSection == {m \in Mons : mon[m].pc \in {"check", "rgpu", "rcpu"}}

\* C23: a watchdog task holds the mutex exactly while it is in its cleanup; it takes
\* the mutex only when free and only after its probe found the pid dead; and a task
\* that terminated does not hold it.
C23_NoLockWhileSleeping ==
    /\ [](\A m \in Mons : lock = ByMon(m) <=> m \in MonsInSection)
    /\ [][\A m \in Mons :
            /\ (lock # ByMon(m) /\ lock' = ByMon(m)) => (mon[m].pc = "dead" /\ lock = Free)
            /\ (mon[m].pc # "free" /\ mon'[m].pc = "free") => lock' = Free]_vars

\* one watchdog task is in its cleanup while another one sleeps
C23_Witness ==
    \E m, n \in Mons : mon[m].pc = "sleep" /\ lock = ByMon(n) /\ mon[n].pc = "rgpu"

\* C24: at most one call or watchdog task is inside its critical section, and it is
\* the holder of the mutex; the mutex passes from one holder to the next only through
\* a release; and active_pids, the baselines and the hardware change only in steps of
\* the holder.
C24_MutualExclusion ==
    /\ [](Cardinality(CallsInSection) + Cardinality(MonsInSection) <= 1)
    /\ [](\A c \in Calls : lock = ByCall(c) <=> c \in CallsInSection)
    /\ [][/\ lock # Free => lock' \in {lock, Free}
          /\ (active_pids' # active_pids \/ hw_vars' # hw_vars \/ baseline_epp' # baseline_epp)
                => (lock # Free \/ lock' # Free)]_vars

\* apply_tuning holds the mutex after its GPU adapter call while a watchdog task that
\* found its pid dead waits for it
C24_Witness ==
    /\ \E c \in Calls : lock = ByCall(c) /\ call[c].pc = "prio" /\ cs.agpu = 1
    /\ \E m \in Mons : mon[m].pc = "dead"

\* C22: a call reaches its spawn step only through the step that records its pid,
\* completes the block with Ok and drops the guard; a watchdog task starts only in a
\* step of a call that is at its spawn step and does not hold the mutex; and the task
\* starts asleep with the call's pid and the watchdog_interval_sec of the call's
\* sys section.
C22_SpawnAfterCommit ==
    /\ [](\A c \in Calls : call[c].pc = "spawn" => lock # ByCall(c))
    /\ [][\A c \in Calls : (call[c].pc # "spawn" /\ call'[c].pc = "spawn") =>
            /\ call[c].pc = "add" /\ lock = ByCall(c) /\ lock' = Free
            /\ call[c].pid \in active_pids'
            /\ cs'.kind = "apply" /\ cs'.pid = call[c].pid
            /\ cs'.done /\ cs'.result = "ok"
            /\ mon' = mon]_vars
    /\ [][\A m \in Mons : (mon[m].pc = "free" /\ mon'[m].pc # "free") =>
            \E c \in Calls :
                /\ call[c].pc = "spawn" /\ call'[c].pc = "idle"
                /\ lock # ByCall(c) /\ lock' = lock
                /\ active_pids' = active_pids
                /\ mon'[m] = [pc |-> "sleep", pid |-> call[c].pid,
                              interval |-> call[c].interval]]_vars
    /\ [][\A c \in Calls, cfg \in SysRunConfigs :
            (ApplyPrio(c, cfg, TRUE) \/ ApplyPrio(c, cfg, FALSE)) =>
                (call'[c].pc = "add" => call'[c].interval = cfg.watchdog_interval_sec)]_vars
    /\ [][\A c \in Calls : (call[c].pc = "add" /\ call'[c].pc = "spawn") =>
            call'[c].interval = call[c].interval]_vars

\* two watchdog tasks sleep with the different intervals their requests carried
C22_Witness ==
    \E m, n \in Mons :
        /\ mon[m].pc = "sleep" /\ mon[m].interval = 5
        /\ mon[n].pc = "sleep" /\ mon[n].interval = 10

\* C27 as claimed: a complete JSON text in which every section is present, each with
\* all its fields or with its flag alone, is never refused by deserialization.
C27_FlagOnlyDeserializes ==
    [][\A c \in Calls, p \in Pids, b \in Blobs :
         (b.wellformed /\ b.cpu # "missing" /\ b.gpu # "missing" /\ b.sys # "missing")
            => ~ApplyTuningBadJson(c, p, b)]_vars

\* C26 as claimed: handling a request whose version is not CURRENT_VERSION changes
\* nothing of the daemon's state, takes no mutex, starts no operation and no adapter
\* call.
C26_UnknownVersionRejected ==
    [][\A c \in Calls, req \in Requests :
         (req.version # CURRENT_VERSION /\ Serve(c, req))
            => UNCHANGED <<daemon_vars, lock, call, mon, hw_vars, cs>>]_vars

\* C25: when the daemon has exited, the latest critical section is the shutdown's and
\* it called restore_gpu_defaults once and restore_cpu_defaults once, reaching the
\* GPU adapter when a handle exists and the EPP adapter when a baseline was captured;
\* a GPU restore that succeeded left the default limit enforced; between the signal
\* and the exit active_pids and the watchdog tasks are left as they are; and the
\* daemon exits only from the end of that pass.
C25_ShutdownRestoresOnce ==
    /\ [](daemon_pc = "exited" =>
            /\ cs.kind = "shutdown" /\ cs.rgpu = 1 /\ cs.rcpu = 1
            /\ cs.agpu = (IF gpu THEN 1 ELSE 0)
            /\ cs.acpu = (IF IsSome(baseline_epp) THEN 1 ELSE 0)
            /\ (gpu /\ ~cs.gpu_err) => gpu_limit = DefaultLimit)
    /\ [][(daemon_pc = "stop_gpu" \/ daemon_pc = "stop_cpu") =>
            /\ active_pids' = active_pids
            /\ baseline_epp' = baseline_epp
            /\ \A m \in Mons : mon[m].pc # "free" => mon'[m].pc # "free"]_vars
    /\ [][(daemon_pc # "exited" /\ daemon_pc' = "exited") =>
            (daemon_pc = "stop_cpu" /\ lock = ByMain)]_vars

\* the daemon exited after a pass that restored the GPU while a pid was still
\* registered and its watchdog task still slept
C25_Witness ==
    /\ daemon_pc = "exited" /\ gpu /\ ~cs.gpu_err
    /\ cs.before # {} /\ active_pids # {}
    /\ \E m \in Mons : mon[m].pc = "sleep"

\* the daemon exited with nothing registered
C25_WitnessIdle == daemon_pc = "exited" /\ active_pids = {} /\ NoMonitor

\* C28: along a chain of images run_pkexec is called at most once; a try_elevate call
\* of an unprivileged image that has the marker returns false in the same image
\* without calling run_pkexec; and run_pkexec is called only by an unprivileged
\* image without the marker, and the marker is set by the time the helper is
\* exec'd (or the exec has failed).
C28_NoElevationLoop ==
    /\ [](proc.helper_calls <= 1 /\ proc.images <= proc.helper_calls)
    /\ [][(proc.euid = "user" /\ proc.env.PRIME_RS_ELEVATED /\ proc' # proc
           /\ proc.pc \in {"main", "after"} /\ proc'.calls # proc.calls) =>
            /\ proc'.ret = "false"
            /\ proc'.calls = proc.calls + 1
            /\ proc'.helper_calls = proc.helper_calls
            /\ proc'.images = proc.images]_vars
    /\ [][proc'.helper_calls # proc.helper_calls =>
            /\ proc'.helper_calls = proc.helper_calls + 1
            /\ proc.euid = "user"
            /\ ~proc.env.PRIME_RS_ELEVATED
            /\ proc'.env.PRIME_RS_ELEVATED]_vars

\* an image that the helper started unprivileged called try_elevate, which returned
\* false
C28_Witness ==
    /\ proc.images = 1 /\ proc.euid = "user" /\ proc.helper_calls = 1
    /\ proc.ret = "false" /\ proc.calls = 1

\* exec failed in the first image and a second try_elevate call returned false
C28_WitnessRepeated ==
    /\ proc.images = 0 /\ proc.helper_calls = 1 /\ proc.calls = MaxTry /\ proc.ret = "false"

\* C29 as claimed: by the time run_pkexec is called the marker is set and a HOME that
\* is set has been saved in ORIGINAL_HOME; the image the helper starts is the current
\* binary with the same arguments; and a privileged image that the helper started
\* and that reached daemon.run() has the first image's HOME again.
C29_HomeRecordedBeforeExec ==
    /\ [][proc'.helper_calls # proc.helper_calls =>
            /\ proc'.env.PRIME_RS_ELEVATED
            /\ IsSome(proc.env.HOME) => proc'.env.ORIGINAL_HOME = proc.env.HOME
            /\ proc'.images # proc.images => proc'.argv = <<Exe>> \o Tail(proc.argv)]_vars
    /\ [](proc.pc = "run" /\ proc.images > 0 /\ IsSome(proc.home0)
            => proc.env.HOME = proc.home0)

\* C30 as claimed: a try_elevate call that finds the marker in an unprivileged image,
\* or whose exec fails, returns false; and the daemon binary, once try_elevate
\* returned false, does not exit without serving.
C30_FailureStillServes ==
    /\ [][(proc'.calls # proc.calls /\ proc.euid = "user" /\ proc'.images = proc.images)
            => proc'.ret = "false"]_vars
    /\ [](proc.bin = "nvprime_sys" /\ proc.ret = "false" => proc.pc # "exit")

C32_RegistrationNotLost ==
    /\ [](hist.fresh \subseteq active_pids)
    /\ [][\A m \in Mons : (mon[m].pc = "rgpu" /\ mon'[m].pc # "rgpu") => hist.fresh = {}]_vars

\* the watchdog tasks for pid p that have not yet taken the mutex for their cleanup
WaitingMonitors(p) == {m \in Mons : mon[m].pc \in {"sleep", "dead"} /\ mon[m].pid = p}

\* C33: every pid in active_pids is watched by a task that has not started its
\* cleanup, or is the pid of a call that recorded it and is about to spawn its task;
\* and a task ends only from its own critical section, in which it removed its pid
\* from active_pids.
C33_NoOrphanPid ==
    /\ [](\A p \in active_pids :
            \/ WaitingMonitors(p) # {}
            \/ \E c \in Calls : call[c].pc = "spawn" /\ call[c].pid = p)
    /\ [][\A m \in Mons : (mon[m].pc # "free" /\ mon'[m].pc = "free") =>
            /\ lock = ByMon(m)
            /\ cs.kind = "mon" /\ cs.pid = mon[m].pid
            /\ mon[m].pid \notin active_pids']_vars

\* a recorded pid whose call has not spawned the task yet, and one whose task sleeps
C33_Witness ==
    /\ \E c \in Calls :
          call[c].pc = "spawn" /\ call[c].pid \in active_pids /\ LiveMonitors(call[c].pid) = {}
    /\ \E p \in active_pids : \E m \in Mons : mon[m].pc = "sleep" /\ mon[m].pid = p

\* C34: the GPU restore of a watchdog task, whatever its outcome, is followed by the
\* CPU restore in the same critical section; the CPU restore ends the task and frees
\* the mutex; through both steps active_pids stays empty, no call and no other task
\* is started or changed; and a finished cleanup whose GPU restore failed made one
\* call of each restore function and left active_pids empty.
C34_MonitorRestoreFailureLogged ==
    /\ [][\A m \in Mons : (mon[m].pc = "rgpu" /\ mon'[m] # mon[m]) =>
            /\ mon'[m] = [mon[m] EXCEPT !.pc = "rcpu"]
            /\ lock' = ByMon(m)
            /\ active_pids = {} /\ active_pids' = {}
            /\ cs'.rgpu = 1 /\ cs'.rcpu = 0]_vars
    /\ [][\A m \in Mons : (mon[m].pc = "rcpu" /\ mon'[m] # mon[m]) =>
            /\ mon'[m] = FreeMon
            /\ lock' = Free
            /\ active_pids' = {}
            /\ cs'.rgpu = 1 /\ cs'.rcpu = 1 /\ cs'.done
            /\ cs'.gpu_err = cs.gpu_err
            /\ call' = call
            /\ \A n \in Mons \ {m} : mon'[n] = mon[n]]_vars
    /\ [](cs.kind = "mon" /\ cs.done /\ cs.gpu_err =>
            /\ cs.rgpu = 1 /\ cs.rcpu = 1
            /\ active_pids = {}
            /\ \A m \in Mons : mon[m].pc \notin {"check", "rgpu", "rcpu"})

\* a cleanup ended after a failed GPU restore: the limit is still the tuned one, the
\* cores have their baseline again, nothing is tracked and no task is left
C34_Witness ==
    /\ cs.kind = "mon" /\ cs.done /\ cs.gpu_err /\ cs.acpu = 1
    /\ gpu_limit # DefaultLimit
    /\ \A k \in Cores : ~core_epp[k].tuned
    /\ active_pids = {} /\ NoMonitor /\ NoCallInFlight

\* C35: apply_process_priority calls setpriority exactly when sys_tuning is set and
\* proc_renice is not 0; without the call the step succeeds and the call goes on to
\* record the pid; when setpriority fails apply_tuning returns Err from the
\* priority step, the pid is not recorded and the mutex is free; when it succeeds
\* the call goes on.
C35_PriorityStep ==
    /\ [](hist.prio.seen =>
            (hist.prio.called <=> (hist.prio.enabled /\ hist.prio.renice # 0)))
    /\ [][\A c \in Calls : (call[c].pc = "prio" /\ call'[c].pc # "prio") =>
            /\ hist'.prio.seen /\ hist'.prio.pid = call[c].pid
            /\ (hist'.prio.called /\ ~hist'.prio.ok) =>
                  /\ call'[c].pc = "idle"
                  /\ cs'.done /\ cs'.result = "err" /\ cs'.failed_step = "prio"
                  /\ active_pids' = active_pids
                  /\ lock' = Free
            /\ (~hist'.prio.called \/ hist'.prio.ok) =>
                  /\ call'[c].pc = "add"
                  /\ lock' = ByCall(c)
                  /\ ~cs'.done]_vars

\* setpriority failed for a pid that is not tracked: the call ended with Err
C35_Witness ==
    /\ hist.prio.called /\ ~hist.prio.ok
    /\ cs.kind = "apply" /\ cs.done /\ cs.result = "err" /\ cs.failed_step = "prio"
    /\ hist.prio.pid \notin active_pids

\* sys_tuning is off and proc_renice is -5: no setpriority call, the pid is recorded
C35_WitnessDisabled ==
    /\ hist.prio.seen /\ ~hist.prio.enabled /\ hist.prio.renice # 0 /\ ~hist.prio.called
    /\ cs.kind = "apply" /\ cs.done /\ cs.result = "ok" /\ hist.prio.pid \in active_pids

\* C36: set_epp returns Ok whatever happens. For a valid profile and a readable cpu
\* directory it attempts the write on every core that has the control file, each
\* core whose write succeeds holds the profile's name and every other core is as
\* before, wherever in the order the failing cores come, and the counters count the
\* two kinds of cores. For a string that is no profile, or without the directory, it
\* attempts no write and leaves every core as before. The cores it leaves behind
\* are those of set_epp over the cores that accept their write.
C36_SetEppBestEffort ==
    epp_call.kind = "set_epp" =>
        LET p == from_str(epp_call.mode)
            go == IsSome(p) /\ epp_call.dir = "ok"
            W == IF go THEN epp_call.E \ epp_call.F ELSE {}
        IN  /\ epp_call.ret = "Ok"
            /\ epp_call.attempted = (IF go THEN epp_call.E ELSE {})
            /\ epp_call.success_count = Cardinality(W)
            /\ epp_call.fail_count = (IF go THEN Cardinality(epp_call.E \cap epp_call.F) ELSE 0)
            /\ \A k \in W : core_epp[k].epp = as_str(Unwrap(p))
            /\ \A k \in Cores \ W : core_epp[k] = epp_call.before[k]
            /\ \A k \in Cores :
                  core_epp[k].epp = set_epp(epp_call.before, epp_call.mode, W, FALSE)[k].epp

\* the write failed on one core and a later core was written all the same
C36_Witness ==
    /\ epp_call.kind = "set_epp" /\ epp_call.mode = "Balance_Power" /\ epp_call.dir = "ok"
    /\ \E k \in epp_call.E \cap epp_call.F : \E j \in epp_call.E \ epp_call.F :
          /\ j > k
          /\ core_epp[j].epp = "balance_power"
          /\ epp_call.before[j].epp # "balance_power"
          /\ core_epp[k] = epp_call.before[k]

\* a string that is no profile: nothing attempted, Ok returned
C36_WitnessInvalid ==
    /\ epp_call.kind = "set_epp" /\ epp_call.mode = "invalid_mode" /\ epp_call.dir = "ok"
    /\ epp_call.E = Cores /\ epp_call.F = {} /\ epp_call.attempted = {}
    /\ core_epp = epp_call.before /\ epp_call.ret = "Ok"

\* the profile a string names when case is ignored
NamedProfile(s) ==
    CASE s \in {"performance", "PERFORMANCE"} -> Some("Performance")
      [] s \in {"balance_performance", "Balance_Performance"} -> Some("BalancePerformance")
      [] s \in {"default", "DEFAULT"} -> Some("Default")
      [] s \in {"balance_power", "Balance_Power"} -> Some("BalancePower")
      [] s \in {"power", "Power"} -> Some("Power")
      [] OTHER -> None

\* C38: from_str(as_str(p)) is p for each of the five profiles, and as_str gives five
\* different names; from_str gives the named profile for a name in any case, and
\* Err for every other string.
C38_EppRoundTrip ==
    /\ epp_call.kind = "as_str" =>
          /\ epp_call.back = Some(epp_call.p)
          /\ \A q \in EppProfiles : as_str(q) = epp_call.out => q = epp_call.p
    /\ epp_call.kind = "from_str" =>
          /\ epp_call.out = NamedProfile(epp_call.s)
          /\ epp_call.s \in ValidNames \cup OtherCase => IsSome(epp_call.out)
          /\ epp_call.s \in NoNames => epp_call.out = None
          /\ IsSome(epp_call.out) => Unwrap(epp_call.out) \in EppProfiles

\* from_str was given a name in upper case
C38_Witness ==
    epp_call.kind = "from_str" /\ epp_call.s = "PERFORMANCE"
        /\ epp_call.out = Some("Performance")

\* from_str was given a string that is no name
C38_WitnessErr ==
    epp_call.kind = "from_str" /\ epp_call.s = "performance " /\ epp_call.out = None

\* a reset_tuning or a watchdog pass that made its CPU restore and reported no failure
RestoredQuietly ==
    /\ cs.kind \in {"reset", "mon"} /\ cs.done /\ cs.rcpu = 1
    /\ cs.result # "err" /\ ~cs.gpu_err

\* C37: once a successful apply_tuning has tuned the CPU, a reset_tuning or a watchdog
\* restore that reports no failure, with every core accepting its write, leaves
\* every core's EPP equal to the recorded baseline_epp, whatever amd_epp_base the
\* requests declared.
C37_RestoreReachesBaseline ==
    (hist.cpu_applied /\ RestoredQuietly) =>
        /\ IsSome(baseline_epp)
        /\ \A k \in Cores : core_epp[k].epp = Unwrap(baseline_epp)

\* C37 for the requests whose amd_epp_base names a profile: the restore writes it
C37_NamedBaselineRestored ==
    (hist.cpu_applied /\ RestoredQuietly /\ IsSome(baseline_epp)
        /\ IsSome(from_str(Unwrap(baseline_epp)))) =>
        \A k \in Cores : core_epp[k] = [epp |-> Unwrap(baseline_epp), tuned |-> FALSE]

\* ------------------------------------------------------------------ Launcher
\* runner::Launcher of the nvprime client. A call returns Ok(value) or Err(message).
Ok(v) == [ok |-> TRUE, val |-> v, err |-> ""]
Err(e) == [ok |-> FALSE, val |-> 0, err |-> e]

\* bound: calls made on one Launcher
MaxOps == 3

\* ExitStatus::code() of a child that ended: Some(code), or None after a signal
ExitStatuses == {Some(0), Some(3), None}

\* Command::spawn: the child starts, or the OS refuses
SpawnOutcomes == {"ok", "err"}

\* Child::wait on a child not yet reaped: its status, or an OS error
WaitOutcomes == {[ok |-> TRUE, status |-> s] : s \in ExitStatuses} \cup
                {[ok |-> FALSE, status |-> None]}

\* Launcher::new: no child. History: spawned = children started so far (the next
\* child's id), waits = calls of Child::wait.
NewLauncher == [child |-> None, spawned |-> 0, waits |-> 0]

\* Launcher::spawn: the child is stored only when Command::spawn returned it
spawn(L, o) ==
    IF o = "err" THEN [L |-> L, ret |-> Err("spawn failed")]
    ELSE [L |-> [L EXCEPT !.child = Some([id |-> L.spawned + 1, reaped |-> None]),
                          !.spawned = @ + 1],
          ret |-> Ok(L.spawned + 1)]

\* std Child::wait: the status of a child already reaped is returned again
child_wait(ch, o) == IF IsSome(ch.reaped) THEN [ok |-> TRUE, status |-> Unwrap(ch.reaped)] ELSE o

\* Launcher::wait: status.code().unwrap_or(-1) of the stored child, which stays stored
wait(L, o) ==
    IF IsSome(L.child)
    THEN LET ch == Unwrap(L.child)
             r == child_wait(ch, o) IN
         IF r.ok
         THEN [L |-> [L EXCEPT !.child = Some([ch EXCEPT !.reaped = Some(r.status)]),
                               !.waits = @ + 1],
               ret |-> Ok(IF IsSome(r.status) THEN Unwrap(r.status) ELSE -1)]
         ELSE [L |-> [L EXCEPT !.waits = @ + 1], ret |-> Err("wait failed")]
    ELSE [L |-> L, ret |-> Err("No running process to wait for")]

\* Launcher::execute without the ? after spawn
execute_WaitAnyway(L, o1, o2) == wait(spawn(L, o1).L, o2)

\* Launcher::execute: self.spawn()?; self.wait()
execute(L, o1, o2) ==
    LET s == spawn(L, o1) IN
    IF ~s.ret.ok THEN s ELSE wait(s.L, o2)

\* the client process creates its Launcher
LauncherNew ==
    /\ client = NoClient
    /\ client' = [pc |-> "launcher", L |-> NewLauncher, nops |-> 0,
                  last |-> [op |-> "new", spawn_ok |-> FALSE,
                            wait_out |-> [ok |-> FALSE, status |-> None],
                            before |-> NewLauncher, ret |-> Ok(0)]]
    /\ UNCHANGED <<daemon_pc, daemon_vars, lock, call, mon, alive, respawns, audit, nrpc,
                   hw_vars, cs, hist, proc, epp_call>>

\* one call on the Launcher; last records the call, the outcomes the OS gave it,
\* the Launcher before it and what it returned
LauncherCall(op, o1, o2, out) ==
    /\ client.pc = "launcher"
    /\ client.nops < MaxOps
    /\ client' = [client EXCEPT !.L = out.L, !.nops = @ + 1,
                                !.last = [op |-> op, spawn_ok |-> (o1 = "ok"), wait_out |-> o2,
                                          before |-> client.L, ret |-> out.ret]]
    /\ UNCHANGED <<daemon_pc, daemon_vars, lock, call, mon, alive, respawns, audit, nrpc,
                   hw_vars, cs, hist, proc, epp_call>>

LauncherSpawn(o) ==
    LauncherCall("spawn", o, [ok |-> FALSE, status |-> None], spawn(client.L, o))

LauncherWait(o) == LauncherCall("wait", "err", o, wait(client.L, o))

LauncherExecute(o1, o2) == LauncherCall("execute", o1, o2, execute(client.L, o1, o2))

NextLauncher ==
    \/ LauncherNew
    \/ \E o \in SpawnOutcomes : LauncherSpawn(o)
    \/ \E o \in WaitOutcomes : LauncherWait(o)
    \/ \E o1 \in SpawnOutcomes, o2 \in WaitOutcomes : LauncherExecute(o1, o2)

SpecLauncher == Init /\ [][NextLauncher]_vars

\* what Launcher::wait owes its caller once Child::wait answered r for the stored child
WaitResult(r) ==
    IF r.ok THEN Ok(IF IsSome(r.status) THEN Unwrap(r.status) ELSE -1)
    ELSE Err("wait failed")

\* the answer of Child::wait in the latest call: that of the OS, or the status an
\* earlier wait on the same child already got
LastChildWait ==
    LET b == client.last.before IN
    IF client.last.op = "wait" /\ IsSome(b.child) /\ IsSome(Unwrap(b.child).reaped)
    THEN [ok |-> TRUE, status |-> Unwrap(Unwrap(b.child).reaped)]
    ELSE client.last.wait_out

LauncherCalled(op) == client.pc = "launcher" /\ client.last.op = op

\* wait() fails with 'No running process to wait for' exactly when no spawn succeeded
C39_NoProcessIff ==
    LauncherCalled("wait") =>
        (client.last.ret = Err("No running process to wait for")
            <=> client.last.before.spawned = 0)

\* execute() is spawn() then wait(), and no wait() when spawn() failed
C39_ExecuteIsSpawnThenWait ==
    LauncherCalled("execute") =>
        IF client.last.spawn_ok
        THEN /\ client.L.spawned = client.last.before.spawned + 1
             /\ client.L.waits = client.last.before.waits + 1
             /\ Unwrap(client.L.child).id = client.L.spawned
             /\ client.last.ret = WaitResult(client.last.wait_out)
        ELSE /\ client.L = client.last.before
             /\ client.last.ret = Err("spawn failed")

\* C39 as claimed: wait() returns 'No running process to wait for' iff no spawn()
\* succeeded before it; after a successful spawn() it returns the child's exit code,
\* -1 when the child has none; execute() is spawn() then wait(), without the wait()
\* when spawn() fails.
C39_LauncherLifecycle ==
    /\ C39_NoProcessIff
    /\ (LauncherCalled("wait") /\ client.last.before.spawned > 0) =>
          /\ client.last.ret.ok
          /\ client.last.ret = WaitResult(LastChildWait)
    /\ C39_ExecuteIsSpawnThenWait

\* C39 as amended: as claimed, except that after a successful spawn() wait() returns
\* the exit code of the latest child spawned (-1 when it has none) only when
\* Child::wait succeeds, and the error of Child::wait otherwise.
C39_LauncherLifecycleOrWaitError ==
    /\ C39_NoProcessIff
    /\ (LauncherCalled("wait") /\ client.last.before.spawned > 0) =>
          /\ client.last.ret = WaitResult(LastChildWait)
          /\ client.last.ret.ok <=> LastChildWait.ok
          /\ client.last.ret # Err("No running process to wait for")
          /\ client.L.waits = client.last.before.waits + 1
          /\ client.L.spawned = client.last.before.spawned
    /\ C39_ExecuteIsSpawnThenWait

\* a wait() after a failed spawn() that followed a successful one, answered with
\* the exit code of the child that was spawned
C39_Witness ==
    /\ LauncherCalled("wait") /\ client.nops = 3
    /\ client.last.before.spawned = 1 /\ client.last.ret = Ok(3)

\* an execute() whose spawn() failed while an earlier child is still stored
C39_WitnessSkip ==
    /\ LauncherCalled("execute") /\ ~client.last.spawn_ok
    /\ IsSome(client.L.child)

\* a child ended by a signal
C39_WitnessNoCode == LauncherCalled("wait") /\ client.last.ret = Ok(-1)

\* ------------------------------------------------------------------ hook client
\* main of the hook-based client, in its two copies: client/src/main.rs calls
\* launcher.execute(), bin/client.rs calls launcher.spawn() and then launcher.wait().
ClientMains == {"client/src/main.rs", "bin/client.rs"}

\* the parts of Config that main reads: tuning.nvidia enabled, hooks.init and
\* hooks.shutdown configured
HookConfigs == [nvidia : BOOLEAN, init : BOOLEAN, shutdown : BOOLEAN]

\* NvTuner::new_from_config and the calls on the tuner: Ok(None) when the section is
\* disabled, Err when NVML does not initialise, else the tuner's call succeeds or fails
TunerOutcomes == {"ok", "failed", "no_nvml", "disabled"}
TunerOutcomesOf(cfg) == IF cfg.nvidia THEN {"ok", "failed", "no_nvml"} ELSE {"disabled"}

\* Command::new("sh").arg("-c").arg(cmd).status(): the hook ran and ended with
\* success or not, or sh could not be started
HookOutcomes == {"success", "nonzero", "cannot_start", "none"}
HookOutcomesOf(configured) ==
    IF configured THEN {"success", "nonzero", "cannot_start"} ELSE {"none"}

\* the exit code main gets from the launcher
ChildCodes == {0, 3}

\* main returned Err: the runtime ends the process with status 1
FAILURE == 1

\* HookRunner::execute_hook: Err only when the command could not be started
execute_hook(o) == IF o = "cannot_start" THEN Err("hook") ELSE Ok(0)

\* HookRunner::run_init: the error of apply_nvidia_tuning is logged; that of the hook
\* is returned
run_init(nv, h) == IF h = "none" THEN Ok(0) ELSE execute_hook(h)

\* HookRunner::run_shutdown: the error of restore_nvidia_tuning is logged; that of
\* the hook is returned
run_shutdown(nv, h) == IF h = "none" THEN Ok(0) ELSE execute_hook(h)

\* main has loaded its configuration. History: tuned = apply_nvidia_tuning applied the
\* tuning, restores = calls of restore_nvidia_tuning, child = the exit code of the
\* child once it ran and was waited for, exit = the status the process ended with.
HookMain(variant, cfg) ==
    /\ client = NoClient
    /\ client' = [pc |-> "init", main |-> variant, cfg |-> cfg, tuned |-> FALSE,
                  restores |-> 0, spawned |-> FALSE, child |-> None, exit |-> None]
    /\ UNCHANGED <<daemon_pc, daemon_vars, lock, call, mon, alive, respawns, audit, nrpc,
                   hw_vars, cs, hist, proc, epp_call>>

\* main returns Err through a ? operator
ExitFailure(cl) == [cl EXCEPT !.pc = "exited", !.exit = Some(FAILURE)]

\* one step of main
HookStep(pc, next) ==
    /\ client.pc = pc
    /\ client' = next
    /\ UNCHANGED <<daemon_pc, daemon_vars, lock, call, mon, alive, respawns, audit, nrpc,
                   hw_vars, cs, hist, proc, epp_call>>

\* HookRunner::run_init(&config, config.hooks.init.as_deref())?
RunInit(nv, h) ==
    /\ client.pc = "init"
    /\ nv \in TunerOutcomesOf(client.cfg) /\ h \in HookOutcomesOf(client.cfg.init)
    /\ LET cl == [client EXCEPT !.tuned = (nv = "ok")] IN
       HookStep("init", IF run_init(nv, h).ok THEN [cl EXCEPT !.pc = "launch"]
                        ELSE ExitFailure(cl))

\* client/src/main.rs: launcher.execute()?
LaunchExecute(o1, o2, code) ==
    /\ client.pc = "launch" /\ client.main = "client/src/main.rs"
    /\ HookStep("launch",
                IF o1 = "err" THEN ExitFailure(client)
                ELSE IF ~o2 THEN ExitFailure([client EXCEPT !.spawned = TRUE])
                ELSE [client EXCEPT !.pc = "shutdown", !.spawned = TRUE,
                                    !.child = Some(code)])

\* bin/client.rs: launcher.spawn()?
LaunchSpawn(o) ==
    /\ client.pc = "launch" /\ client.main = "bin/client.rs"
    /\ HookStep("launch", IF o = "err" THEN ExitFailure(client)
                          ELSE [client EXCEPT !.pc = "wait", !.spawned = TRUE])

\* bin/client.rs: launcher.wait()?
LaunchWait(ok, code) ==
    /\ client.pc = "wait"
    /\ HookStep("wait", IF ~ok THEN ExitFailure(client)
                        ELSE [client EXCEPT !.pc = "shutdown", !.child = Some(code)])

\* HookRunner::run_shutdown(&config, config.hooks.shutdown.as_deref())? and then
\* std::process::exit(exit_code)
RunShutdown(nv, h) ==
    /\ client.pc = "shutdown"
    /\ nv \in TunerOutcomesOf(client.cfg) /\ h \in HookOutcomesOf(client.cfg.shutdown)
    /\ LET cl == [client EXCEPT !.restores = @ + 1] IN
       HookStep("shutdown", IF run_shutdown(nv, h).ok
                            THEN [cl EXCEPT !.pc = "exited", !.exit = client.child]
                            ELSE ExitFailure(cl))

NextHooks ==
    \/ \E variant \in ClientMains, cfg \in HookConfigs : HookMain(variant, cfg)
    \/ \E nv \in TunerOutcomes, h \in HookOutcomes : RunInit(nv, h)
    \/ \E o1 \in SpawnOutcomes, o2 \in BOOLEAN, code \in ChildCodes :
          LaunchExecute(o1, o2, code)
    \/ \E o \in SpawnOutcomes : LaunchSpawn(o)
    \/ \E ok \in BOOLEAN, code \in ChildCodes : LaunchWait(ok, code)
    \/ \E nv \in TunerOutcomes, h \in HookOutcomes : RunShutdown(nv, h)

SpecHooks == Init /\ [][NextHooks]_vars

HookClientExited == client.pc = "exited"

\* C40: in the hook client, a run whose run_init applied the NVIDIA tuning calls
\* run_shutdown's restore before the process exits, also when the child cannot be
\* launched or a hook cannot be started; and when the child ran, the process exits
\* with the child's exit code.
C40_RestoreBeforeExit ==
    HookClientExited =>
        /\ client.tuned => client.restores >= 1
        /\ IsSome(client.child) => client.exit = client.child

\* what the code does give: a run that reaches run_shutdown makes one restore call,
\* and one whose run_shutdown returns Ok exits with the child's code
C40_RestoreWhenShutdownReached ==
    HookClientExited =>
        /\ client.restores = (IF IsSome(client.child) THEN 1 ELSE 0)
        /\ client.exit \in {client.child, Some(FAILURE)}
        /\ client.exit # Some(FAILURE) => (client.restores = 1 /\ IsSome(client.child))

====
